---- MODULE Spec2Model ----
(***************************************************************************)
(* MechMapOnline server: the room-state synchronisation engine.           *)
(*                                                                         *)
(* The state is the SQLite store (rooms, hexes, lines, units tables of     *)
(* db.py, written through repository.py), the in-memory room cache and     *)
(* session registry of main.py, and the socket.io room membership that     *)
(* decides who receives a broadcast.  Every socket.io event handler of     *)
(* main.py is one action.  With the in-memory socket.io manager no         *)
(* handler yields between its store writes and the emit that follows, so   *)
(* a handler is one atomic step here.                                      *)
(***************************************************************************)
EXTENDS Integers, Sequences, FiniteSets, TLC

(***************************************************************************)
(* Bounds and universes                                                    *)
(***************************************************************************)
NumSessions == 2          \* socket connections (sids)
MaxVersion == 4           \* a room's version counter is capped here

Sids == 1..NumSessions
RoomIds == {"A", "B"}     \* the ids generate_room_id can draw
Keys == {"k1", "k2"}      \* cell keys
LineIds == {"l1", "l2"}
UnitIds == {"u1", "u2"}
Usernames == {"adm", "usr"}   \* registered users (users table)
Admins == {"adm"}             \* users whose is_admin column is 1

None == "None"            \* Python None / SQL NULL / a missing dict key
Passwords == {"pw", "bad"}    \* room passwords a client may type
Salts == {"s1"}               \* what secrets.token_hex can draw
NoHash == [salt |-> None, digest |-> <<None, None>>]   \* password_hash is NULL
\* no rooms row
NoRoomRow == [exists |-> FALSE, owner |-> None, version |-> 0,
              has_password |-> FALSE, password_hash |-> NoHash]
NoHex == [fillColor |-> None, rooms |-> <<>>]     \* hex_key not in hex_data
DEFAULT_COLOR == "lightgray"
Colors == {DEFAULT_COLOR, "red", "blue"}

VARIABLES
    db_rooms,       \* rooms table: room id -> [exists, owner, version]
    db_hexes,       \* hexes table: room id -> cell key -> fill_color, None if no row
    db_lines,       \* lines table, in created_at order: [room, line_id, payload]
    db_units,       \* units table, in created_at order: [room, unit_id, hex_key, parent]
    rooms,          \* main.rooms: room id -> the cached room dict, [cached |-> FALSE ..] if none
    user_sessions,  \* main.user_sessions: sid -> the session dict, [connected |-> FALSE ..] if none
    sio_rooms,      \* socket.io room membership: room id -> set of sids
    out,            \* what the handler that ran last emitted: sequence of Msg
    loop            \* the asyncio event loop: the coroutine that is running and the
                    \* handler coroutines that have begun and not returned

vars == <<db_rooms, db_hexes, db_lines, db_units, rooms, user_sessions, sio_rooms, out, loop>>
store == <<db_rooms, db_hexes, db_lines, db_units>>

(***************************************************************************)
(* Sequence helpers                                                        *)
(***************************************************************************)
Range(s) == {s[i] : i \in 1..Len(s)}

RECURSIVE SeqFilter(_, _)
\* [x for x in s if x \in keep]
SeqFilter(s, keep) ==
    IF s = <<>> THEN <<>>
    ELSE IF Head(s) \in keep THEN <<Head(s)>> \o SeqFilter(Tail(s), keep)
    ELSE SeqFilter(Tail(s), keep)

(***************************************************************************)
(* repository.py: the store                                                *)
(***************************************************************************)
is_admin_user_any_account(username) == username # None

is_admin_user(username) == username # None /\ username \in Admins

create_room(dbr, room_id, owner, password_hash) ==
    [dbr EXCEPT ![room_id] = [exists |-> TRUE, owner |-> owner, version |-> 1,
                              has_password |-> password_hash # NoHash,
                              password_hash |-> password_hash]]

get_room(room_id) == db_rooms[room_id]

increment_room_version_by_two(dbr, room_id) ==
    IF ~dbr[room_id].exists THEN dbr
    ELSE [dbr EXCEPT ![room_id].version = @ + 2]

increment_room_version(dbr, room_id) ==
    IF ~dbr[room_id].exists THEN dbr
    ELSE [dbr EXCEPT ![room_id].version = @ + 1]

returned_version_before_update(dbr, room_id) ==
    IF ~dbr[room_id].exists THEN 1 ELSE dbr[room_id].version - 1

\* the value increment_room_version returns, read from the updated table
returned_version(dbr, room_id) ==
    IF ~dbr[room_id].exists THEN 1 ELSE dbr[room_id].version

delete_room(dbr, room_id) == [dbr EXCEPT ![room_id] = NoRoomRow]

update_hex_always_upsert(dbh, room_id, hex_key, fill_color) ==
    [dbh EXCEPT ![room_id][hex_key] = fill_color]

update_hex(dbh, room_id, hex_key, fill_color) ==
    IF fill_color = DEFAULT_COLOR
    THEN [dbh EXCEPT ![room_id][hex_key] = None]
    ELSE [dbh EXCEPT ![room_id][hex_key] = fill_color]

erase_hex(dbh, room_id, hex_key) == [dbh EXCEPT ![room_id][hex_key] = None]

\* line_id and unit_id are PRIMARY KEYs of their tables: an INSERT of an id
\* that is present in any room raises sqlite3.IntegrityError
line_id_taken(dbl, line_id) == \E i \in 1..Len(dbl) : dbl[i].line_id = line_id
unit_id_taken(dbu, unit_id) == \E i \in 1..Len(dbu) : dbu[i].unit_id = unit_id

add_line_dropped(dbl, room_id, line_id, line_data) == dbl

add_line(dbl, room_id, line_id, line_data) ==
    Append(dbl, [room |-> room_id, line_id |-> line_id, payload |-> line_data])

line_touches(line_data, hex_key) ==
    line_data.start = hex_key \/ line_data.end = hex_key

delete_lines_by_hex_start_only(dbl, room_id, hex_key) ==
    SeqFilter(dbl, {l \in Range(dbl) :
        ~(l.room = room_id /\ l.payload.start = hex_key)})

delete_lines_by_hex(dbl, room_id, hex_key) ==
    SeqFilter(dbl, {l \in Range(dbl) :
        ~(l.room = room_id /\ line_touches(l.payload, hex_key))})

add_unit(dbu, room_id, unit_id, unit_data) ==
    Append(dbu, [room |-> room_id, unit_id |-> unit_id,
                 hex_key |-> unit_data.hex_key, parent |-> None])

RECURSIVE move_unit(_, _, _, _)
\* UPDATE units SET hex_key = ? WHERE room_id = ? AND unit_id = ?
move_unit(dbu, room_id, unit_id, new_hex_key) ==
    IF dbu = <<>> THEN <<>>
    ELSE <<IF Head(dbu).room = room_id /\ Head(dbu).unit_id = unit_id
           THEN [Head(dbu) EXCEPT !.hex_key = new_hex_key]
           ELSE Head(dbu)>> \o move_unit(Tail(dbu), room_id, unit_id, new_hex_key)

delete_unit(dbu, room_id, unit_id) ==
    SeqFilter(dbu, {u \in Range(dbu) : ~(u.room = room_id /\ u.unit_id = unit_id)})

delete_units_by_hex(dbu, room_id, hex_key) ==
    SeqFilter(dbu, {u \in Range(dbu) : ~(u.room = room_id /\ u.hex_key = hex_key)})

\* what get_room_state returns for the room's map: the hexes rows as
\* {'fillColor': c} (NoHex where there is no row), the payloads of the
\* room's lines, the room's units
\* (the SELECT reads no parent_unit_id column)
RECURSIVE line_payloads(_, _)
line_payloads(dbl, room_id) ==
    IF dbl = <<>> THEN <<>>
    ELSE IF Head(dbl).room = room_id
         THEN <<Head(dbl).payload>> \o line_payloads(Tail(dbl), room_id)
         ELSE line_payloads(Tail(dbl), room_id)

RECURSIVE unit_dicts(_, _)
unit_dicts(dbu, room_id) ==
    IF dbu = <<>> THEN <<>>
    ELSE IF Head(dbu).room = room_id
         THEN <<[id |-> Head(dbu).unit_id, hex_key |-> Head(dbu).hex_key,
                 parent_unit_id |-> None]>> \o unit_dicts(Tail(dbu), room_id)
         ELSE unit_dicts(Tail(dbu), room_id)

hex_dicts(dbh, room_id) ==
    [k \in Keys |-> [fillColor |-> dbh[room_id][k], rooms |-> <<>>]]

get_room_state_of(dbr, dbh, dbl, dbu, room_id) ==
    [hex_data |-> hex_dicts(dbh, room_id),
     lines |-> line_payloads(dbl, room_id),
     units |-> unit_dicts(dbu, room_id),
     owner |-> dbr[room_id].owner,
     version |-> dbr[room_id].version]

get_room_state(room_id) ==
    get_room_state_of(db_rooms, db_hexes, db_lines, db_units, room_id)

(***************************************************************************)
(* main.py: cache, sessions, emits                                         *)
(***************************************************************************)
NoCache == [cached |-> FALSE, hex_data |-> [k \in Keys |-> NoHex],
            lines |-> <<>>, units |-> <<>>, users |-> {}, owner |-> None]
NoSession == [connected |-> FALSE, room_id |-> None, username |-> None,
              is_admin_room |-> FALSE, admin_toggles |-> <<>>]

\* the dict handlers create when room_id is not in rooms
EmptyCache == [NoCache EXCEPT !.cached = TRUE]

\* one sio.emit: the event name, the sid whose handler emits it, the sids
\* it is delivered to, the room_version it carries (0 when it carries
\* none) and its payload
Msg(name, sid, to, version, data) ==
    [name |-> name, sid |-> sid, to |-> to, room_version |-> version, data |-> data]

\* sio.emit(..., room=sid): a connected sid is the only member of its own room
ToSid(sid) == {sid}

\* sio.emit(..., room=room_id): every sid that entered the room
ToRoom(room_id) == sio_rooms[room_id]

ToRoomSkipIgnored(room_id, sid) == sio_rooms[room_id]

\* sio.emit(..., room=room_id, skip_sid=sid)
ToRoomSkip(room_id, sid) == sio_rooms[room_id] \ {sid}

is_authenticated(user_data) == user_data.username # None

\* hashlib.pbkdf2_hmac: a digest that is determined by, and determines,
\* the password and the salt
pbkdf2_hmac(password, salt) == <<password, salt>>

hash_password(password, salt) == [salt |-> salt, digest |-> pbkdf2_hmac(password, salt)]

verify_password(password, hashed) == hashed.digest = pbkdf2_hmac(password, hashed.salt)

verify_room_password_unchecked(room_data, password) == TRUE

\* password is None when the client sent none (or an empty one)
verify_room_password(room_data, password) ==
    IF ~room_data.has_password THEN TRUE
    ELSE IF password = None THEN FALSE
    ELSE IF room_data.password_hash = NoHash THEN TRUE
    ELSE verify_password(password, room_data.password_hash)

\* a handler coroutine: the handler, the index in its statements of the one
\* it executes next, and its local variables
NoTask == [handler |-> None, pc |-> 0, room_id |-> None, hex_key |-> None,
           fill_color |-> None, room_version |-> 0, lines |-> <<>>,
           line_data |-> [id |-> None, start |-> None, end |-> None],
           room_state |-> [hex_data |-> [k \in Keys |-> NoHex], lines |-> <<>>,
                           units |-> <<>>, owner |-> None, version |-> 0],
           user_sids |-> {}]

\* no coroutine has begun, none is running (running is a sid, or 0)
\* sent is the room_version of the last mutation broadcast the coroutines
\* handed to socket.io for each room, 0 when there was none
IdleLoop == [running |-> 0, coro |-> [s \in Sids |-> NoTask], sent |-> [r \in RoomIds |-> 0]]

Init ==
    /\ db_rooms = [r \in RoomIds |-> NoRoomRow]
    /\ db_hexes = [r \in RoomIds |-> [k \in Keys |-> None]]
    /\ db_lines = <<>>
    /\ db_units = <<>>
    /\ rooms = [r \in RoomIds |-> NoCache]
    /\ user_sessions = [s \in Sids |-> NoSession]
    /\ sio_rooms = [r \in RoomIds |-> {}]
    /\ out = <<>>
    /\ loop = IdleLoop

\* The process is started again: rooms, user_sessions and the socket.io
\* server are module-level objects that start empty, lifespan loads nothing
\* into them; the store is the database file
lifespan ==
    /\ rooms' = [r \in RoomIds |-> NoCache]
    /\ user_sessions' = [s \in Sids |-> NoSession]
    /\ sio_rooms' = [r \in RoomIds |-> {}]
    /\ loop' = IdleLoop
    /\ out' = <<>>
    /\ UNCHANGED store

handle_connect(sid) ==
    /\ ~user_sessions[sid].connected
    /\ user_sessions' = [user_sessions EXCEPT ![sid] = [NoSession EXCEPT !.connected = TRUE]]
    /\ UNCHANGED loop
    /\ out' = <<>>
    /\ UNCHANGED <<store, rooms, sio_rooms>>

handle_disconnect_rolling_back(sid) ==
    LET user_data == user_sessions[sid]
        room_id == user_data.room_id
        in_room == room_id # None /\ rooms[room_id].cached /\ sid \in rooms[room_id].users
    IN  /\ user_data.connected
        /\ rooms' = IF in_room
                    THEN [rooms EXCEPT ![room_id].users = @ \ {sid}]
                    ELSE rooms
        /\ UNCHANGED loop
        /\ out' = IF in_room
                  THEN <<Msg("user_left", sid, sio_rooms[room_id] \ {sid}, 0, <<>>)>>
                  ELSE <<>>
        /\ user_sessions' = [user_sessions EXCEPT ![sid] = NoSession]
        /\ sio_rooms' = [r \in RoomIds |-> sio_rooms[r] \ {sid}]
        /\ db_units' = SeqFilter(db_units, {u \in Range(db_units) : u.room # room_id})
        /\ UNCHANGED <<db_rooms, db_hexes, db_lines>>

handle_disconnect(sid) ==
    LET user_data == user_sessions[sid]
        room_id == user_data.room_id
        in_room == room_id # None /\ rooms[room_id].cached /\ sid \in rooms[room_id].users
    IN  /\ user_data.connected
        /\ rooms' = IF in_room
                    THEN [rooms EXCEPT ![room_id].users = @ \ {sid}]
                    ELSE rooms
        /\ UNCHANGED loop
        /\ out' = IF in_room
                  THEN <<Msg("user_left", sid, sio_rooms[room_id] \ {sid}, 0, <<>>)>>
                  ELSE <<>>
        /\ user_sessions' = [user_sessions EXCEPT ![sid] = NoSession]
        \* socket.io drops a disconnected sid from every room it entered
        /\ sio_rooms' = [r \in RoomIds |-> sio_rooms[r] \ {sid}]
        /\ UNCHANGED store

\* username is what get_user_from_token resolves the token to (None: no or
\* an invalid token)
handle_authenticate(sid, username) ==
    /\ user_sessions[sid].connected
    /\ IF username # None
       THEN /\ user_sessions' = [user_sessions EXCEPT ![sid].username = username]
            /\ UNCHANGED loop
            /\ out' = <<Msg("auth_success", sid, ToSid(sid), 0, username)>>
       ELSE /\ UNCHANGED user_sessions
            /\ UNCHANGED loop
            /\ out' = <<Msg("auth_error", sid, ToSid(sid), 0, <<>>)>>
    /\ UNCHANGED <<store, rooms, sio_rooms>>

unused_room_id_in_cache(dbr, draws) ==
    IF \E i \in 1..Len(draws) : ~rooms[draws[i]].cached
    THEN draws[CHOOSE i \in 1..Len(draws) :
                   /\ ~rooms[draws[i]].cached
                   /\ \A j \in 1..(i - 1) : rooms[draws[j]].cached]
    ELSE None

\* room_id = generate_room_id(); while get_room(room_id) is not None:
\* room_id = generate_room_id() -- draws are the ids generate_room_id
\* returns one after the other; None when every one of them is in use (the
\* loop goes on)
RECURSIVE unused_room_id(_, _)
unused_room_id(dbr, draws) ==
    IF draws = <<>> THEN None
    ELSE IF ~dbr[Head(draws)].exists THEN Head(draws)
    ELSE unused_room_id(dbr, Tail(draws))

\* draws are the ids generate_room_id returns, room_password the stripped
\* password of the request (None: none or empty), salt what hash_password
\* draws
handle_create_room(sid, draws, room_password, salt) ==
    LET user_data == user_sessions[sid]
        room_id == unused_room_id(db_rooms, draws)
        room_owner == user_data.username
        password_hash == IF room_password # None
                         THEN hash_password(room_password, salt) ELSE NoHash
        dbr == create_room(db_rooms, room_id, room_owner, password_hash)
        room_state == get_room_state_of(dbr, db_hexes, db_lines, db_units, room_id)
    IN  /\ user_data.connected
        /\ room_id # None
        /\ db_rooms' = dbr
        /\ rooms' = [rooms EXCEPT ![room_id] =
                        [EmptyCache EXCEPT !.users = {sid}, !.owner = room_owner]]
        /\ sio_rooms' = [sio_rooms EXCEPT ![room_id] = @ \cup {sid}]
        /\ user_sessions' = [user_sessions EXCEPT ![sid].room_id = room_id,
                                                  ![sid].is_admin_room = FALSE]
        /\ UNCHANGED loop
        /\ out' = <<Msg("room_created", sid, ToSid(sid), 0,
                        [room_id |-> room_id, is_owner |-> room_owner # None,
                         hex_data |-> room_state.hex_data, lines |-> room_state.lines,
                         units |-> room_state.units])>>
        /\ UNCHANGED <<db_hexes, db_lines, db_units>>

handle_join_room(sid, room_id, room_password) ==
    LET user_data == user_sessions[sid]
        room_meta == get_room(room_id)
        room_state == get_room_state(room_id)
        cache == IF rooms[room_id].cached THEN rooms[room_id]
                 ELSE [cached |-> TRUE, hex_data |-> room_state.hex_data,
                       lines |-> room_state.lines, units |-> room_state.units,
                       users |-> {}, owner |-> room_state.owner]
        members == sio_rooms[room_id] \cup {sid}
    IN  /\ user_data.connected
        /\ IF ~room_meta.exists
           THEN /\ UNCHANGED loop
                /\ out' = <<Msg("room_error", sid, ToSid(sid), 0, "Room not found")>>
                /\ UNCHANGED <<store, rooms, user_sessions, sio_rooms>>
           ELSE IF ~verify_room_password(room_meta, room_password)
           THEN /\ UNCHANGED loop
                /\ out' = <<Msg("room_error", sid, ToSid(sid), 0, "Invalid room password")>>
                /\ UNCHANGED <<store, rooms, user_sessions, sio_rooms>>
           ELSE /\ rooms' = [rooms EXCEPT ![room_id] = [cache EXCEPT !.users = @ \cup {sid}]]
                /\ sio_rooms' = [sio_rooms EXCEPT ![room_id] = members]
                /\ user_sessions' = [user_sessions EXCEPT ![sid].room_id = room_id,
                                                          ![sid].is_admin_room = FALSE]
                /\ UNCHANGED loop
                /\ out' = <<Msg("room_joined", sid, ToSid(sid), 0,
                                [room_id |-> room_id,
                                 is_owner |-> room_state.owner # None
                                              /\ user_data.username = room_state.owner,
                                 hex_data |-> room_state.hex_data,
                                 lines |-> room_state.lines,
                                 units |-> room_state.units]),
                            Msg("user_joined", sid, members \ {sid}, 0, <<>>)>>
                /\ UNCHANGED store

handle_leave_room_evicting_empty(sid) ==
    LET user_data == user_sessions[sid]
        room_id == user_data.room_id
        in_room == rooms[room_id].cached /\ sid \in rooms[room_id].users
        emptied == in_room /\ rooms[room_id].users = {sid}
    IN  /\ user_data.connected
        /\ IF room_id = None
           THEN /\ UNCHANGED loop
                /\ out' = <<Msg("room_left", sid, ToSid(sid), 0, <<>>)>>
                /\ UNCHANGED <<store, rooms, user_sessions, sio_rooms>>
           ELSE /\ rooms' = IF emptied
                            THEN [rooms EXCEPT ![room_id] = NoCache]
                            ELSE IF in_room
                            THEN [rooms EXCEPT ![room_id].users = @ \ {sid}]
                            ELSE rooms
                /\ sio_rooms' = IF in_room
                                THEN [sio_rooms EXCEPT ![room_id] = @ \ {sid}]
                                ELSE sio_rooms
                /\ user_sessions' = [user_sessions EXCEPT ![sid].room_id = None,
                                                          ![sid].is_admin_room = FALSE]
                /\ UNCHANGED loop
                /\ out' = (IF in_room
                           THEN <<Msg("user_left", sid, sio_rooms[room_id] \ {sid}, 0, <<>>)>>
                           ELSE <<>>)
                          \o <<Msg("room_left", sid, ToSid(sid), 0, <<>>)>>
                /\ db_rooms' = IF emptied THEN delete_room(db_rooms, room_id) ELSE db_rooms
                /\ UNCHANGED <<db_hexes, db_lines, db_units>>

handle_leave_room(sid) ==
    LET user_data == user_sessions[sid]
        room_id == user_data.room_id
        in_room == rooms[room_id].cached /\ sid \in rooms[room_id].users
    IN  /\ user_data.connected
        /\ IF room_id = None
           THEN /\ UNCHANGED loop
                /\ out' = <<Msg("room_left", sid, ToSid(sid), 0, <<>>)>>
                /\ UNCHANGED <<store, rooms, user_sessions, sio_rooms>>
           ELSE /\ rooms' = IF in_room
                            THEN [rooms EXCEPT ![room_id].users = @ \ {sid}]
                            ELSE rooms
                /\ sio_rooms' = IF in_room
                                THEN [sio_rooms EXCEPT ![room_id] = @ \ {sid}]
                                ELSE sio_rooms
                /\ user_sessions' = [user_sessions EXCEPT ![sid].room_id = None,
                                                          ![sid].is_admin_room = FALSE]
                /\ UNCHANGED loop
                /\ out' = (IF in_room
                           THEN <<Msg("user_left", sid, sio_rooms[room_id] \ {sid}, 0, <<>>)>>
                           ELSE <<>>)
                          \o <<Msg("room_left", sid, ToSid(sid), 0, <<>>)>>
                /\ UNCHANGED store

len_active_users_without_sender(room_id) == Cardinality(rooms[room_id].users) - 1

\* len(rooms.get(room_id, {}).get('users', {}))
len_active_users(room_id) == Cardinality(rooms[room_id].users)

handle_delete_room(sid) ==
    LET user_data == user_sessions[sid]
        room_id == user_data.room_id
    IN  /\ user_data.connected
        /\ IF room_id = None
           THEN /\ UNCHANGED loop
                /\ out' = <<Msg("room_error", sid, ToSid(sid), 0,
                                "You must be in a room to delete it")>>
                /\ UNCHANGED <<store, rooms, user_sessions, sio_rooms>>
           ELSE IF ~get_room(room_id).exists
           THEN /\ UNCHANGED loop
                /\ out' = <<Msg("room_error", sid, ToSid(sid), 0, "Room not found")>>
                /\ UNCHANGED <<store, rooms, user_sessions, sio_rooms>>
           ELSE IF len_active_users(room_id) > 1
           THEN /\ UNCHANGED loop
                /\ out' = <<Msg("room_error", sid, ToSid(sid), 0,
                                "Cannot delete room with other users present")>>
                /\ UNCHANGED <<store, rooms, user_sessions, sio_rooms>>
           ELSE /\ db_rooms' = delete_room(db_rooms, room_id)
                /\ rooms' = [rooms EXCEPT ![room_id] = NoCache]
                /\ user_sessions' = [user_sessions EXCEPT ![sid].room_id = None]
                /\ sio_rooms' = [sio_rooms EXCEPT ![room_id] = @ \ {sid}]
                /\ UNCHANGED loop
                /\ out' = <<Msg("room_deleted", sid, ToSid(sid), 0, <<>>)>>
                /\ UNCHANGED <<db_hexes, db_lines, db_units>>

handle_admin_delete_room(sid, target_room_id) ==
    LET user_data == user_sessions[sid]
        active_users == rooms[target_room_id].users
    IN  /\ user_data.connected
        /\ IF ~is_authenticated(user_data) \/ ~is_admin_user(user_data.username)
           THEN /\ UNCHANGED loop
                /\ out' = <<Msg("room_error", sid, ToSid(sid), 0,
                                "Admin privileges required to delete rooms")>>
                /\ UNCHANGED <<store, rooms, user_sessions, sio_rooms>>
           ELSE IF ~get_room(target_room_id).exists
           THEN /\ UNCHANGED loop
                /\ out' = <<Msg("room_error", sid, ToSid(sid), 0, "Room not found")>>
                /\ UNCHANGED <<store, rooms, user_sessions, sio_rooms>>
           ELSE /\ user_sessions' =
                      [s \in Sids |->
                          IF s \in active_users /\ user_sessions[s].connected
                          THEN [user_sessions[s] EXCEPT !.room_id = None,
                                                        !.is_admin_room = FALSE]
                          ELSE user_sessions[s]]
                /\ sio_rooms' = [sio_rooms EXCEPT ![target_room_id] = @ \ active_users]
                /\ db_rooms' = delete_room(db_rooms, target_room_id)
                /\ rooms' = [rooms EXCEPT ![target_room_id] = NoCache]
                /\ UNCHANGED loop
                /\ out' = (IF active_users # {}
                           THEN <<Msg("room_deleted", sid, sio_rooms[target_room_id], 0, <<>>)>>
                           ELSE <<>>)
                          \o <<Msg("room_deleted", sid, ToSid(sid), 0, target_room_id),
                               Msg("room_list_refresh", sid,
                                   {s \in Sids : user_sessions[s].connected}, 0,
                                   target_room_id)>>
                /\ UNCHANGED <<db_hexes, db_lines, db_units>>

(***************************************************************************)
(* main.py: the mutating handlers                                          *)
(***************************************************************************)
\* main.admin_rooms, as a list of [admin_room_id, room_toggles]: no statement
\* of main.py ever adds an entry to it
admin_rooms == <<>>

\* get_aggregated_room_data, one cell: the rooms of the toggle map that are
\* enabled and have a hexes row for the cell, in the order of the map; the
\* first sets the primary color, each is appended to the contributors
RECURSIVE aggregated_cell(_, _, _)
aggregated_cell(toggles, entry, hex_key) ==
    IF toggles = <<>> THEN entry
    ELSE LET room_id == Head(toggles).room_id
             fill_color == db_hexes[room_id][hex_key]
             base == IF entry.fillColor = None
                     THEN [fillColor |-> fill_color, rooms |-> <<>>]
                     ELSE entry
             layered == [fillColor |-> IF base.fillColor = DEFAULT_COLOR
                                       THEN fill_color ELSE base.fillColor,
                         rooms |-> Append(base.rooms, [room_id |-> room_id,
                                                       fillColor |-> fill_color])]
         IN  aggregated_cell(Tail(toggles),
                             IF /\ Head(toggles).enabled
                                /\ get_room(room_id).exists
                                /\ fill_color # None
                             THEN layered ELSE entry,
                             hex_key)

\* (the hex_data and room_toggles of what it returns)
get_aggregated_room_data(admin_room) ==
    [hex_data |-> [k \in Keys |-> aggregated_cell(admin_room.room_toggles, NoHex, k)],
     room_toggles |-> admin_room.room_toggles]

\* the emits of notify_admin_rooms_of_room_update: one per admin room that
\* has the updated room enabled, to the sids in that admin room
RECURSIVE notify_admin_rooms_of_room_update(_, _)
notify_admin_rooms_of_room_update(admin_room_list, updated_room_id) ==
    IF admin_room_list = <<>> THEN <<>>
    ELSE (IF \E i \in 1..Len(Head(admin_room_list).room_toggles) :
                /\ Head(admin_room_list).room_toggles[i].room_id = updated_room_id
                /\ Head(admin_room_list).room_toggles[i].enabled
          THEN <<Msg("admin_room_data_updated", 0,
                     ToRoom(Head(admin_room_list).admin_room_id), 0,
                     get_aggregated_room_data(Head(admin_room_list)))>>
          ELSE <<>>)
         \o notify_admin_rooms_of_room_update(Tail(admin_room_list), updated_room_id)

\* the common head of every mutating handler but replace_room_state:
\* no session room -> silent return; admin room -> admin_error to the sender
Silent(sid) ==
    /\ user_sessions[sid].room_id = None
    /\ UNCHANGED loop
    /\ out' = <<>>
    /\ UNCHANGED <<store, rooms, user_sessions, sio_rooms>>

AdminReadOnly(sid) ==
    /\ user_sessions[sid].room_id # None
    /\ user_sessions[sid].is_admin_room
    /\ UNCHANGED loop
    /\ out' = <<Msg("admin_error", sid, ToSid(sid), 0, <<>>)>>
    /\ UNCHANGED <<store, rooms, user_sessions, sio_rooms>>

\* an exception leaves the handler: the transaction that raised is rolled
\* back, nothing after it runs, nothing is emitted
Raised(sid) ==
    /\ UNCHANGED loop
    /\ out' = <<>>
    /\ UNCHANGED <<store, rooms, user_sessions, sio_rooms>>

Editing(sid) ==
    /\ user_sessions[sid].room_id # None
    /\ ~user_sessions[sid].is_admin_room
    /\ db_rooms[user_sessions[sid].room_id].version < MaxVersion

CacheOf(room_id) == IF rooms[room_id].cached THEN rooms[room_id] ELSE EmptyCache

handle_hex_update_erasing_on_default(sid, hex_key, fill_color) ==
    LET room_id == user_sessions[sid].room_id
        dbr == increment_room_version(db_rooms, room_id)
        dbl == IF fill_color = DEFAULT_COLOR
               THEN delete_lines_by_hex(db_lines, room_id, hex_key) ELSE db_lines
    IN  /\ user_sessions[sid].connected
        /\ \/ Silent(sid)
           \/ /\ Editing(sid)
              /\ db_hexes' = update_hex(db_hexes, room_id, hex_key, fill_color)
              /\ db_lines' = dbl
              /\ db_rooms' = dbr
              /\ rooms' = [rooms EXCEPT ![room_id] =
                              [CacheOf(room_id) EXCEPT !.hex_data[hex_key].fillColor = fill_color,
                                                       !.lines = line_payloads(dbl, room_id)]]
              /\ UNCHANGED loop
              /\ out' = <<Msg("hex_updated", sid, ToRoomSkip(room_id, sid),
                              returned_version(dbr, room_id),
                              [hex_key |-> hex_key, fill_color |-> fill_color])>>
              /\ UNCHANGED <<db_units, user_sessions, sio_rooms>>

handle_hex_update(sid, hex_key, fill_color) ==
    LET room_id == user_sessions[sid].room_id
        dbr == increment_room_version(db_rooms, room_id)
        room_version == returned_version(dbr, room_id)
    IN  /\ user_sessions[sid].connected
        /\ \/ Silent(sid)
           \/ AdminReadOnly(sid)
           \/ /\ Editing(sid)
              /\ db_hexes' = update_hex(db_hexes, room_id, hex_key, fill_color)
              /\ db_rooms' = dbr
              /\ rooms' = [rooms EXCEPT ![room_id] =
                              [CacheOf(room_id) EXCEPT !.hex_data[hex_key].fillColor = fill_color]]
              /\ UNCHANGED loop
              /\ out' = <<Msg("hex_updated", sid, ToRoomSkip(room_id, sid), room_version,
                              [hex_key |-> hex_key, fill_color |-> fill_color])>>
                        \o notify_admin_rooms_of_room_update(admin_rooms, room_id)
              /\ UNCHANGED <<db_lines, db_units, user_sessions, sio_rooms>>

handle_line_add(sid, line_id, start, end) ==
    LET room_id == user_sessions[sid].room_id
        line_data == [id |-> line_id, start |-> start, end |-> end]
        dbr == increment_room_version(db_rooms, room_id)
        room_version == returned_version(dbr, room_id)
    IN  /\ user_sessions[sid].connected
        /\ \/ Silent(sid)
           \/ AdminReadOnly(sid)
           \/ /\ Editing(sid)
              /\ IF line_id_taken(db_lines, line_id)
                 THEN Raised(sid)
                 ELSE /\ db_lines' = add_line(db_lines, room_id, line_id, line_data)
                      /\ db_rooms' = dbr
                      /\ rooms' = [rooms EXCEPT ![room_id] =
                                      [CacheOf(room_id) EXCEPT !.lines = Append(@, line_data)]]
                      /\ UNCHANGED loop
                      /\ out' = <<Msg("line_added", sid, ToRoomSkip(room_id, sid), room_version,
                                      line_data)>>
                                \o notify_admin_rooms_of_room_update(admin_rooms, room_id)
                      /\ UNCHANGED <<db_hexes, db_units, user_sessions, sio_rooms>>

handle_hex_erase_deleting_units(sid, hex_key) ==
    LET room_id == user_sessions[sid].room_id
    IN  /\ user_sessions[sid].connected
        /\ Editing(sid)
        /\ db_hexes' = erase_hex(db_hexes, room_id, hex_key)
        /\ db_lines' = delete_lines_by_hex(db_lines, room_id, hex_key)
        /\ db_units' = delete_units_by_hex(db_units, room_id, hex_key)
        /\ db_rooms' = increment_room_version(db_rooms, room_id)
        /\ rooms' = [rooms EXCEPT ![room_id] = [CacheOf(room_id) EXCEPT
                        !.lines = line_payloads(db_lines', room_id),
                        !.units = unit_dicts(db_units', room_id)]]
        /\ UNCHANGED loop
        /\ out' = <<Msg("hex_erased", sid, ToRoomSkip(room_id, sid),
                        returned_version(db_rooms', room_id),
                        [hex_key |-> hex_key, lines |-> line_payloads(db_lines', room_id)])>>
        /\ UNCHANGED <<user_sessions, sio_rooms>>

handle_hex_erase(sid, hex_key) ==
    LET room_id == user_sessions[sid].room_id
        dbh == erase_hex(db_hexes, room_id, hex_key)
        dbl == delete_lines_by_hex(db_lines, room_id, hex_key)
        dbr == increment_room_version(db_rooms, room_id)
        room_version == returned_version(dbr, room_id)
        room_state == get_room_state_of(dbr, dbh, dbl, db_units, room_id)
        cache == CacheOf(room_id)
    IN  /\ user_sessions[sid].connected
        /\ \/ Silent(sid)
           \/ AdminReadOnly(sid)
           \/ /\ Editing(sid)
              /\ db_hexes' = dbh
              /\ db_lines' = dbl
              /\ db_rooms' = dbr
              /\ rooms' = [rooms EXCEPT ![room_id] =
                  [cache EXCEPT
                      !.hex_data[hex_key].fillColor =
                          IF cache.hex_data[hex_key].fillColor # None THEN DEFAULT_COLOR ELSE @,
                      !.lines = room_state.lines]]
              /\ UNCHANGED loop
              /\ out' = <<Msg("hex_erased", sid, ToRoomSkip(room_id, sid), room_version,
                              [hex_key |-> hex_key, lines |-> room_state.lines])>>
                        \o notify_admin_rooms_of_room_update(admin_rooms, room_id)
              /\ UNCHANGED <<db_units, user_sessions, sio_rooms>>

\* repository.update_unit, reparent_unit and get_unit are imported by main.py
\* (lines 25-34) and defined in no source file: update_unit patches the
\* display fields of the row (name, icon, tint, description), none of which
\* decides a cell or a parent; reparent_unit stores the parent reference
\* and, when a cell is given, the cell; get_unit reads the row back.
update_unit(dbu, room_id, unit_id) == dbu

RECURSIVE reparent_unit(_, _, _, _, _)
reparent_unit(dbu, room_id, unit_id, parent_unit_id, hex_key) ==
    IF dbu = <<>> THEN <<>>
    ELSE <<IF Head(dbu).room = room_id /\ Head(dbu).unit_id = unit_id
           THEN [Head(dbu) EXCEPT !.parent = parent_unit_id,
                                  !.hex_key = IF hex_key = None THEN @ ELSE hex_key]
           ELSE Head(dbu)>>
         \o reparent_unit(Tail(dbu), room_id, unit_id, parent_unit_id, hex_key)

unit_row_exists(dbu, room_id, unit_id) ==
    \E i \in 1..Len(dbu) : dbu[i].room = room_id /\ dbu[i].unit_id = unit_id

get_unit(dbu, room_id, unit_id) ==
    LET row == dbu[CHOOSE i \in 1..Len(dbu) :
                       dbu[i].room = room_id /\ dbu[i].unit_id = unit_id]
    IN  [id |-> row.unit_id, hex_key |-> row.hex_key, parent_unit_id |-> row.parent]

\* for idx, unit in enumerate(units): if unit.get('id') == unit_id:
\*     units[idx] = {**unit, **updated}; break
RECURSIVE cache_merge_unit(_, _, _)
cache_merge_unit(units, unit_id, updated) ==
    IF units = <<>> THEN <<>>
    ELSE IF Head(units).id = unit_id THEN <<updated>> \o Tail(units)
    ELSE <<Head(units)>> \o cache_merge_unit(Tail(units), unit_id, updated)

\* the first loop of handle_unit_move: the first unit with that id, then break
RECURSIVE cache_move_first(_, _, _)
cache_move_first(units, unit_id, new_hex_key) ==
    IF units = <<>> THEN <<>>
    ELSE IF Head(units).id = unit_id
         THEN <<[Head(units) EXCEPT !.hex_key = new_hex_key]>> \o Tail(units)
         ELSE <<Head(units)>> \o cache_move_first(Tail(units), unit_id, new_hex_key)

\* the second loop: every unit whose parent_unit_id is the moved unit
RECURSIVE cache_move_children(_, _, _)
cache_move_children(units, unit_id, new_hex_key) ==
    IF units = <<>> THEN <<>>
    ELSE <<IF Head(units).parent_unit_id = unit_id
           THEN [Head(units) EXCEPT !.hex_key = new_hex_key]
           ELSE Head(units)>>
         \o cache_move_children(Tail(units), unit_id, new_hex_key)

handle_unit_add(sid, unit_id, hex_key, parent_unit_id) ==
    LET room_id == user_sessions[sid].room_id
        unit_data == [id |-> unit_id, hex_key |-> hex_key, parent_unit_id |-> parent_unit_id]
        dbr == increment_room_version(db_rooms, room_id)
        room_version == returned_version(dbr, room_id)
    IN  /\ user_sessions[sid].connected
        /\ \/ Silent(sid)
           \/ AdminReadOnly(sid)
           \/ /\ Editing(sid)
              /\ IF unit_id_taken(db_units, unit_id)
                 THEN Raised(sid)
                 ELSE /\ db_units' = add_unit(db_units, room_id, unit_id, unit_data)
                      /\ db_rooms' = dbr
                      /\ rooms' = [rooms EXCEPT ![room_id] =
                                      [CacheOf(room_id) EXCEPT !.units = Append(@, unit_data)]]
                      /\ UNCHANGED loop
                      /\ out' = <<Msg("unit_added", sid, ToRoom(room_id), room_version,
                                      unit_data)>>
                                \o notify_admin_rooms_of_room_update(admin_rooms, room_id)
                      /\ UNCHANGED <<db_hexes, db_lines, user_sessions, sio_rooms>>

\* the tail handle_unit_update and handle_unit_reparent share, after the
\* store write dbu: activity, version, read back, cache, emit
UnitUpdated(sid, unit_id, dbu) ==
    LET room_id == user_sessions[sid].room_id
        dbr == increment_room_version(db_rooms, room_id)
        room_version == returned_version(dbr, room_id)
        updated == get_unit(dbu, room_id, unit_id)
    IN  /\ db_units' = dbu
        /\ db_rooms' = dbr
        /\ IF ~unit_row_exists(dbu, room_id, unit_id)
           THEN /\ UNCHANGED loop
                /\ out' = <<>>
                /\ UNCHANGED rooms
           ELSE /\ rooms' = [rooms EXCEPT ![room_id] =
                                [CacheOf(room_id) EXCEPT
                                    !.units = cache_merge_unit(@, unit_id, updated)]]
                /\ UNCHANGED loop
                /\ out' = <<Msg("unit_updated", sid, ToRoom(room_id), room_version, updated)>>
                          \o notify_admin_rooms_of_room_update(admin_rooms, room_id)
        /\ UNCHANGED <<db_hexes, db_lines, user_sessions, sio_rooms>>

handle_unit_update(sid, unit_id) ==
    LET room_id == user_sessions[sid].room_id
    IN  /\ user_sessions[sid].connected
        /\ \/ Silent(sid)
           \/ AdminReadOnly(sid)
           \/ /\ Editing(sid)
              /\ UnitUpdated(sid, unit_id,
                             update_unit(db_units, room_id, unit_id))

handle_unit_reparent(sid, unit_id, parent_unit_id, hex_key) ==
    LET room_id == user_sessions[sid].room_id
    IN  /\ user_sessions[sid].connected
        /\ \/ Silent(sid)
           \/ AdminReadOnly(sid)
           \/ /\ Editing(sid)
              /\ UnitUpdated(sid, unit_id,
                             reparent_unit(db_units, room_id, unit_id, parent_unit_id, hex_key))

handle_unit_move(sid, unit_id, new_hex_key) ==
    LET room_id == user_sessions[sid].room_id
        dbr == increment_room_version(db_rooms, room_id)
        room_version == returned_version(dbr, room_id)
    IN  /\ user_sessions[sid].connected
        /\ \/ Silent(sid)
           \/ AdminReadOnly(sid)
           \/ /\ Editing(sid)
              /\ db_units' = move_unit(db_units, room_id, unit_id, new_hex_key)
              /\ db_rooms' = dbr
              /\ rooms' = [rooms EXCEPT ![room_id] =
                  [CacheOf(room_id) EXCEPT !.units =
                      cache_move_children(cache_move_first(@, unit_id, new_hex_key),
                                          unit_id, new_hex_key)]]
              /\ UNCHANGED loop
              /\ out' = <<Msg("unit_moved", sid, ToRoomSkip(room_id, sid), room_version,
                              [unit_id |-> unit_id, hex_key |-> new_hex_key])>>
                        \o notify_admin_rooms_of_room_update(admin_rooms, room_id)
              /\ UNCHANGED <<db_hexes, db_lines, user_sessions, sio_rooms>>

handle_unit_delete(sid, unit_id) ==
    LET room_id == user_sessions[sid].room_id
        dbr == increment_room_version(db_rooms, room_id)
        room_version == returned_version(dbr, room_id)
    IN  /\ user_sessions[sid].connected
        /\ \/ Silent(sid)
           \/ AdminReadOnly(sid)
           \/ /\ Editing(sid)
              /\ db_units' = delete_unit(db_units, room_id, unit_id)
              /\ db_rooms' = dbr
              /\ rooms' = [rooms EXCEPT ![room_id] =
                  [CacheOf(room_id) EXCEPT !.units =
                      SeqFilter(@, {u \in Range(@) : u.id # unit_id})]]
              /\ UNCHANGED loop
              /\ out' = <<Msg("unit_deleted", sid, ToRoomSkip(room_id, sid), room_version,
                              [unit_id |-> unit_id])>>
                        \o notify_admin_rooms_of_room_update(admin_rooms, room_id)
              /\ UNCHANGED <<db_hexes, db_lines, user_sessions, sio_rooms>>

(***************************************************************************)
(* Bulk import                                                             *)
(***************************************************************************)
\* the import payloads a client sends: hex_data maps a cell to the
\* fillColor of its entry (None: the cell has no entry), a line or unit may
\* come without an id
ReplacePayloads ==
    { [hex_data |-> [k \in Keys |-> None], lines |-> <<>>, units |-> <<>>],
      [hex_data |-> [k \in Keys |-> IF k = "k1" THEN "red" ELSE DEFAULT_COLOR],
       lines |-> <<[id |-> None, start |-> "k1", end |-> "k2"]>>,
       units |-> <<[id |-> "u2", hex_key |-> "k2", parent_unit_id |-> None],
                   [id |-> None, hex_key |-> "k1", parent_unit_id |-> None]>>],
      [hex_data |-> [k \in Keys |-> IF k = "k2" THEN "blue" ELSE None],
       lines |-> <<[id |-> "l1", start |-> "k2", end |-> "k2"]>>,
       units |-> <<[id |-> "u1", hex_key |-> "k1", parent_unit_id |-> None]>>] }

\* every INSERT of one transaction; ok is FALSE when one of them raises
RECURSIVE insert_lines(_, _, _, _)
insert_lines(dbl, room_id, lines, idx) ==
    IF lines = <<>> THEN [ok |-> TRUE, rows |-> dbl]
    ELSE LET line == Head(lines)
             line_id == IF line.id # None THEN line.id
                        ELSE room_id \o "_line_" \o ToString(idx)
         IN  IF line_id_taken(dbl, line_id) THEN [ok |-> FALSE, rows |-> dbl]
             ELSE insert_lines(add_line(dbl, room_id, line_id, line),
                               room_id, Tail(lines), idx + 1)

RECURSIVE insert_units(_, _, _)
insert_units(dbu, room_id, units) ==
    IF units = <<>> THEN [ok |-> TRUE, rows |-> dbu]
    ELSE LET unit == Head(units)
         IN  IF unit.id = None THEN insert_units(dbu, room_id, Tail(units))
             ELSE IF unit_id_taken(dbu, unit.id) THEN [ok |-> FALSE, rows |-> dbu]
             ELSE insert_units(add_unit(dbu, room_id, unit.id, unit),
                               room_id, Tail(units))

replace_room_state_dense(dbh, dbl, dbu, room_id, hex_data, lines, units) ==
    LET cleared_lines == SeqFilter(dbl, {l \in Range(dbl) : l.room # room_id})
        cleared_units == SeqFilter(dbu, {u \in Range(dbu) : u.room # room_id})
        new_hexes == [dbh EXCEPT ![room_id] = [k \in Keys |-> hex_data[k]]]
        new_lines == insert_lines(cleared_lines, room_id, lines, 0)
        new_units == insert_units(cleared_units, room_id, units)
    IN  IF new_lines.ok /\ new_units.ok
        THEN [ok |-> TRUE, hexes |-> new_hexes, lines |-> new_lines.rows,
              units |-> new_units.rows]
        ELSE [ok |-> FALSE, hexes |-> dbh, lines |-> dbl, units |-> dbu]

replace_room_state_merging(dbh, dbl, dbu, room_id, hex_data, lines, units) ==
    LET new_hexes == [dbh EXCEPT ![room_id] =
                         [k \in Keys |-> IF hex_data[k] \in {None, DEFAULT_COLOR}
                                         THEN @[k] ELSE hex_data[k]]]
        new_lines == insert_lines(dbl, room_id, lines, 0)
        new_units == insert_units(dbu, room_id, units)
    IN  IF new_lines.ok /\ new_units.ok
        THEN [ok |-> TRUE, hexes |-> new_hexes, lines |-> new_lines.rows,
              units |-> new_units.rows]
        ELSE [ok |-> FALSE, hexes |-> dbh, lines |-> dbl, units |-> dbu]

replace_room_state(dbh, dbl, dbu, room_id, hex_data, lines, units) ==
    LET cleared_lines == SeqFilter(dbl, {l \in Range(dbl) : l.room # room_id})
        cleared_units == SeqFilter(dbu, {u \in Range(dbu) : u.room # room_id})
        new_hexes == [dbh EXCEPT ![room_id] =
                         [k \in Keys |-> IF hex_data[k] \in {None, DEFAULT_COLOR}
                                         THEN None ELSE hex_data[k]]]
        new_lines == insert_lines(cleared_lines, room_id, lines, 0)
        new_units == insert_units(cleared_units, room_id, units)
    IN  IF new_lines.ok /\ new_units.ok
        THEN [ok |-> TRUE, hexes |-> new_hexes, lines |-> new_lines.rows,
              units |-> new_units.rows]
        ELSE [ok |-> FALSE, hexes |-> dbh, lines |-> dbl, units |-> dbu]

may_replace_anyone(user_data, room_meta) == TRUE

\* is_owner or is_admin of handle_replace_room_state
may_replace(user_data, room_meta) ==
    \/ room_meta.owner # None /\ user_data.username = room_meta.owner
    \/ is_authenticated(user_data) /\ is_admin_user(user_data.username)

handle_replace_room_state(sid, payload) ==
    LET user_data == user_sessions[sid]
        room_id == user_data.room_id
        room_meta == get_room(room_id)
        replaced == replace_room_state(db_hexes, db_lines, db_units, room_id,
                                       payload.hex_data, payload.lines, payload.units)
        dbr == increment_room_version(db_rooms, room_id)
        room_version == returned_version(dbr, room_id)
        room_state == get_room_state_of(dbr, replaced.hexes, replaced.lines,
                                        replaced.units, room_id)
    IN  /\ user_data.connected
        /\ IF room_id = None
           THEN /\ UNCHANGED loop
                /\ out' = <<Msg("room_error", sid, ToSid(sid), 0,
                                "You must be in a room to replace its state")>>
                /\ UNCHANGED <<store, rooms, user_sessions, sio_rooms>>
           ELSE IF ~room_meta.exists
           THEN /\ UNCHANGED loop
                /\ out' = <<Msg("room_error", sid, ToSid(sid), 0, "Room not found")>>
                /\ UNCHANGED <<store, rooms, user_sessions, sio_rooms>>
           ELSE IF ~may_replace(user_data, room_meta)
           THEN /\ UNCHANGED loop
                /\ out' = <<Msg("room_error", sid, ToSid(sid), 0,
                                "Only room owner or admin can replace room state")>>
                /\ UNCHANGED <<store, rooms, user_sessions, sio_rooms>>
           ELSE /\ db_rooms[room_id].version < MaxVersion
                /\ IF ~replaced.ok
                   THEN Raised(sid)
                   ELSE /\ db_hexes' = replaced.hexes
                        /\ db_lines' = replaced.lines
                        /\ db_units' = replaced.units
                        /\ db_rooms' = dbr
                        /\ rooms' = [rooms EXCEPT ![room_id] =
                              [(IF rooms[room_id].cached THEN rooms[room_id] ELSE EmptyCache)
                                EXCEPT !.hex_data = room_state.hex_data,
                                       !.lines = room_state.lines,
                                       !.units = room_state.units]]
                        /\ UNCHANGED loop
                        /\ out' = <<Msg("room_state_replaced", sid, ToRoom(room_id),
                                        room_version,
                                        [hex_data |-> room_state.hex_data,
                                         lines |-> room_state.lines,
                                         units |-> room_state.units])>>
                                  \o notify_admin_rooms_of_room_update(admin_rooms, room_id)
                        /\ UNCHANGED <<user_sessions, sio_rooms>>

(***************************************************************************)
(* Admin overlay                                                           *)
(***************************************************************************)
\* admin_toggles[target_room_id] = {...}: a dict keeps the position of a key
\* it already holds and appends a new one
RECURSIVE set_toggle(_, _, _)
set_toggle(toggles, room_id, enabled) ==
    IF toggles = <<>> THEN <<[room_id |-> room_id, enabled |-> enabled]>>
    ELSE IF Head(toggles).room_id = room_id
         THEN <<[room_id |-> room_id, enabled |-> enabled]>> \o Tail(toggles)
         ELSE <<Head(toggles)>> \o set_toggle(Tail(toggles), room_id, enabled)

\* lines 1076-1079: hasattr() of a dict is False for a key, so the list the
\* entry holds is dropped before the append
contributors_before_append(entry) == <<>>

\* lines 1065-1088 for one cell: entry is overlay_hex_data[hex_key], which is
\* the very dict of the current room's cache when that room has the cell
\* (dict() copies the outer dict only), so what is written to it is written
\* to the cache
RECURSIVE overlay_cell(_, _, _, _, _)
overlay_cell(toggles, entry, shared, current_room_id, hex_key) ==
    IF toggles = <<>> THEN entry
    ELSE LET room_id == Head(toggles).room_id
             hex_data == IF room_id = current_room_id /\ shared THEN entry
                         ELSE rooms[room_id].hex_data[hex_key]
             colored == /\ Head(toggles).enabled
                        /\ rooms[room_id].cached
                        /\ hex_data.fillColor \notin {None, DEFAULT_COLOR}
             base == IF entry.fillColor = None
                     THEN [fillColor |-> DEFAULT_COLOR, rooms |-> <<>>]
                     ELSE entry
             layered == [fillColor |-> IF base.fillColor = DEFAULT_COLOR
                                       THEN hex_data.fillColor ELSE base.fillColor,
                         rooms |-> Append(contributors_before_append(base),
                                          [room_id |-> room_id,
                                           fillColor |-> hex_data.fillColor])]
         IN  overlay_cell(Tail(toggles), IF colored THEN layered ELSE entry,
                          shared, current_room_id, hex_key)

overlay_hex_data(toggles, current_room_id) ==
    [k \in Keys |->
        overlay_cell(toggles, rooms[current_room_id].hex_data[k],
                     rooms[current_room_id].hex_data[k].fillColor # None,
                     current_room_id, k)]

RECURSIVE tag_lines(_, _)
tag_lines(lines, room_id) ==
    IF lines = <<>> THEN <<>>
    ELSE <<[room_id |-> room_id,
            line_id |-> room_id \o "_" \o
                        (IF Head(lines).id = None THEN "line" ELSE Head(lines).id),
            line |-> Head(lines)]>> \o tag_lines(Tail(lines), room_id)

RECURSIVE tag_units(_, _)
tag_units(units, room_id) ==
    IF units = <<>> THEN <<>>
    ELSE <<[room_id |-> room_id,
            unit_id |-> room_id \o "_" \o
                        (IF Head(units).id = None THEN "unit" ELSE Head(units).id),
            is_read_only |-> TRUE,
            unit |-> Head(units)]>> \o tag_units(Tail(units), room_id)

RECURSIVE overlay_lines(_)
overlay_lines(toggles) ==
    IF toggles = <<>> THEN <<>>
    ELSE (IF Head(toggles).enabled /\ rooms[Head(toggles).room_id].cached
          THEN tag_lines(rooms[Head(toggles).room_id].lines, Head(toggles).room_id)
          ELSE <<>>) \o overlay_lines(Tail(toggles))

RECURSIVE overlay_units(_)
overlay_units(toggles) ==
    IF toggles = <<>> THEN <<>>
    ELSE (IF Head(toggles).enabled /\ rooms[Head(toggles).room_id].cached
          THEN tag_units(rooms[Head(toggles).room_id].units, Head(toggles).room_id)
          ELSE <<>>) \o overlay_units(Tail(toggles))

handle_admin_toggle_room(sid, target_room_id, enabled) ==
    LET user_data == user_sessions[sid]
        current_room_id == user_data.room_id
        toggles == set_toggle(user_data.admin_toggles, target_room_id, enabled)
        hexes == overlay_hex_data(toggles, current_room_id)
    IN  /\ user_data.connected
        /\ IF \/ ~is_authenticated(user_data) \/ ~is_admin_user(user_data.username)
              \/ current_room_id = None \/ ~rooms[current_room_id].cached
              \/ ~rooms[target_room_id].cached
           THEN /\ UNCHANGED loop
                /\ out' = <<Msg("admin_error", sid, ToSid(sid), 0, <<>>)>>
                /\ UNCHANGED <<store, rooms, user_sessions, sio_rooms>>
           ELSE /\ user_sessions' = [user_sessions EXCEPT ![sid].admin_toggles = toggles]
                \* the cells the overlay shares with the cache keep what the
                \* loop wrote to them
                /\ rooms' = [rooms EXCEPT ![current_room_id].hex_data =
                                [k \in Keys |-> IF @[k].fillColor # None THEN hexes[k]
                                                ELSE @[k]]]
                /\ UNCHANGED loop
                /\ out' = <<Msg("admin_room_overlay_updated", sid, ToSid(sid), 0,
                                [hex_data |-> hexes,
                                 base_lines |-> rooms[current_room_id].lines,
                                 lines |-> overlay_lines(toggles),
                                 base_units |-> rooms[current_room_id].units,
                                 units |-> overlay_units(toggles),
                                 room_toggles |-> toggles])>>
                /\ UNCHANGED <<store, sio_rooms>>

(***************************************************************************)
(* db.py: a store call that raises                                         *)
(***************************************************************************)
\* The store calls of a handler in the order it makes them; each opens its
\* own connection and commits on its own (db_transaction)
StoreCalls ==
    [hex_update |-> <<"update_hex", "update_room_activity", "increment_room_version">>,
     line_add |-> <<"add_line", "update_room_activity", "increment_room_version">>,
     hex_erase |-> <<"erase_hex", "delete_lines_by_hex", "update_room_activity",
                     "increment_room_version">>]

\* call comes before failing in the handler's sequence of store calls
CommittedBefore(calls, call, failing) ==
    \E i, j \in 1..Len(calls) : i < j /\ calls[i] = call /\ calls[j] = failing

StoreFailureReported(sid, dbh, dbl) ==
    /\ db_hexes' = dbh
    /\ db_lines' = dbl
    /\ UNCHANGED loop
    /\ out' = <<Msg("error", sid, ToRoom(user_sessions[sid].room_id), 0, <<>>)>>
    /\ UNCHANGED <<db_rooms, db_units, rooms, user_sessions, sio_rooms>>

\* A store call raises (sqlite3.Error: locked database, full disk, broken
\* constraint): db_transaction rolls that call back and re-raises, the
\* calls made before it stay committed (dbh, dbl), the handler has no
\* except clause, so nothing after the call runs: no version, no cache
\* update, no emit
StoreFailure(sid, dbh, dbl) ==
    /\ db_hexes' = dbh
    /\ db_lines' = dbl
    /\ UNCHANGED loop
    /\ out' = <<>>
    /\ UNCHANGED <<db_rooms, db_units, rooms, user_sessions, sio_rooms>>

\* handle_hex_update when its store call `failing` raises
handle_hex_update_raising(sid, hex_key, fill_color, failing) ==
    LET room_id == user_sessions[sid].room_id
    IN  /\ user_sessions[sid].connected
        /\ Editing(sid)
        /\ StoreFailure(sid,
                IF CommittedBefore(StoreCalls.hex_update, "update_hex", failing)
                THEN update_hex(db_hexes, room_id, hex_key, fill_color) ELSE db_hexes,
                db_lines)

\* handle_line_add when its store call `failing` raises
handle_line_add_raising(sid, line_id, start, end, failing) ==
    LET room_id == user_sessions[sid].room_id
        line_data == [id |-> line_id, start |-> start, end |-> end]
    IN  /\ user_sessions[sid].connected
        /\ Editing(sid)
        \* with the id taken add_line is the call that raises
        /\ line_id_taken(db_lines, line_id) => failing = "add_line"
        /\ StoreFailure(sid, db_hexes,
                IF CommittedBefore(StoreCalls.line_add, "add_line", failing)
                THEN add_line(db_lines, room_id, line_id, line_data) ELSE db_lines)

\* handle_hex_erase when its store call `failing` raises
handle_hex_erase_raising(sid, hex_key, failing) ==
    LET room_id == user_sessions[sid].room_id
    IN  /\ user_sessions[sid].connected
        /\ Editing(sid)
        /\ StoreFailure(sid,
                IF CommittedBefore(StoreCalls.hex_erase, "erase_hex", failing)
                THEN erase_hex(db_hexes, room_id, hex_key) ELSE db_hexes,
                IF CommittedBefore(StoreCalls.hex_erase, "delete_lines_by_hex", failing)
                THEN delete_lines_by_hex(db_lines, room_id, hex_key) ELSE db_lines)

(***************************************************************************)
(* main.py: the mutating handlers as coroutines of the event loop          *)
(***************************************************************************)
\* the statements of a handler after its guards, in the order it executes
\* them
Statements ==
    [hex_update |-> <<"update_hex", "update_room_activity", "increment_room_version",
                      "cache", "emit", "notify_admin_rooms_of_room_update">>,
     hex_erase |-> <<"erase_hex", "delete_lines_by_hex", "update_room_activity",
                     "increment_room_version", "get_room_state", "cache", "emit",
                     "notify_admin_rooms_of_room_update">>,
     line_add |-> <<"add_line", "update_room_activity", "increment_room_version",
                    "cache", "emit", "notify_admin_rooms_of_room_update">>,
     join_room |-> <<"get_room_state", "cache", "enter_room", "session", "users",
                     "update_room_activity", "emit", "emit_user_joined">>,
     admin_delete_room |-> <<"emit_room_deleted", "list_active_users", "leave_room",
                             "delete_room", "del_rooms", "emit",
                             "emit_room_list_refresh">>]

AwaitedWithStoreCalls ==
    {"emit", "notify_admin_rooms_of_room_update", "enter_room", "emit_user_joined",
     "emit_room_deleted", "leave_room", "emit_room_list_refresh", "update_hex", "erase_hex",
     "delete_lines_by_hex", "update_room_activity", "increment_room_version",
     "get_room_state", "add_line"}

AwaitedWithCacheUpdate ==
    {"emit", "notify_admin_rooms_of_room_update", "enter_room", "emit_user_joined",
     "emit_room_deleted", "leave_room", "emit_room_list_refresh", "cache"}

\* the statements that are await expressions.  The awaited call is entered at
\* once, so what it does is done in the order of the calls; the event loop
\* may run other coroutines before the handler goes on after it, and
\* nowhere else
Awaited == {"emit", "notify_admin_rooms_of_room_update", "enter_room",
            "emit_user_joined", "emit_room_deleted", "leave_room",
            "emit_room_list_refresh"}

\* the event loop calls the handler of an event of sid: the guards run and
\* the coroutine stands before its first statement
begin(sid, handler, hex_key, fill_color) ==
    /\ loop.running = 0
    /\ loop.coro[sid] = NoTask
    /\ user_sessions[sid].connected
    /\ \/ Silent(sid)
       \/ AdminReadOnly(sid)
       \/ /\ Editing(sid)
          /\ loop' = [loop EXCEPT
                         !.running = sid,
                         !.coro[sid] =
                             [NoTask EXCEPT !.handler = handler,
                                            !.pc = 1,
                                            !.room_id = user_sessions[sid].room_id,
                                            !.hex_key = hex_key,
                                            !.fill_color = fill_color]]
          /\ out' = <<>>
          /\ UNCHANGED <<store, rooms, user_sessions, sio_rooms>>

\* the event loop calls the handler of a line_add of sid
begin_line_add(sid, line_id, start, end) ==
    /\ loop.running = 0
    /\ loop.coro[sid] = NoTask
    /\ user_sessions[sid].connected
    /\ \/ Silent(sid)
       \/ AdminReadOnly(sid)
       \/ /\ Editing(sid)
          /\ loop' = [loop EXCEPT
                         !.running = sid,
                         !.coro[sid] =
                             [NoTask EXCEPT !.handler = "line_add",
                                            !.pc = 1,
                                            !.room_id = user_sessions[sid].room_id,
                                            !.line_data = [id |-> line_id, start |-> start,
                                                           end |-> end]]]
          /\ out' = <<>>
          /\ UNCHANGED <<store, rooms, user_sessions, sio_rooms>>

\* the coroutine of sid executes its next statement; it keeps the event
\* loop unless that statement is awaited, raises, or is its last
resume(sid) ==
    LET task == loop.coro[sid]
        statements == Statements[task.handler]
        st == statements[task.pc]
        room_id == task.room_id
        hex_key == task.hex_key
        raises == st = "add_line" /\ line_id_taken(db_lines, task.line_data.id)
        returns == raises \/ task.pc = Len(statements)
        yields == returns \/ st \in Awaited
        dbr == increment_room_version(db_rooms, room_id)
        cache == CacheOf(room_id)
        next == [task EXCEPT
                    !.pc = @ + 1,
                    !.room_version = IF st = "increment_room_version"
                                     THEN returned_version(dbr, room_id) ELSE @,
                    !.lines = IF st = "get_room_state"
                              THEN line_payloads(db_lines, room_id) ELSE @]
        emitted == IF st # "emit" THEN <<>>
                   ELSE IF task.handler = "hex_update"
                   THEN <<Msg("hex_updated", sid, ToRoomSkip(room_id, sid), task.room_version,
                              [hex_key |-> hex_key, fill_color |-> task.fill_color])>>
                   ELSE IF task.handler = "hex_erase"
                   THEN <<Msg("hex_erased", sid, ToRoomSkip(room_id, sid), task.room_version,
                              [hex_key |-> hex_key, lines |-> task.lines])>>
                   ELSE <<Msg("line_added", sid, ToRoomSkip(room_id, sid), task.room_version,
                              task.line_data)>>
    IN  /\ task.handler \in {"hex_update", "hex_erase", "line_add"}
        /\ loop.running \in {0, sid}
        /\ loop' = [running |-> IF yields THEN 0 ELSE sid,
                    coro |-> [loop.coro EXCEPT ![sid] = IF returns THEN NoTask ELSE next],
                    sent |-> IF st = "emit"
                             THEN [loop.sent EXCEPT ![room_id] = task.room_version]
                             ELSE loop.sent]
        /\ db_hexes' = IF st = "update_hex"
                       THEN update_hex(db_hexes, room_id, hex_key, task.fill_color)
                       ELSE IF st = "erase_hex"
                       THEN erase_hex(db_hexes, room_id, hex_key)
                       ELSE db_hexes
        /\ db_lines' = IF st = "delete_lines_by_hex"
                       THEN delete_lines_by_hex(db_lines, room_id, hex_key)
                       ELSE IF st = "add_line" /\ ~raises
                       THEN add_line(db_lines, room_id, task.line_data.id, task.line_data)
                       ELSE db_lines
        /\ db_rooms' = IF st = "increment_room_version" THEN dbr ELSE db_rooms
        /\ rooms' = IF st # "cache" THEN rooms
                    ELSE IF task.handler = "hex_update"
                    THEN [rooms EXCEPT ![room_id] =
                             [cache EXCEPT !.hex_data[hex_key].fillColor = task.fill_color]]
                    ELSE IF task.handler = "hex_erase"
                    THEN [rooms EXCEPT ![room_id] =
                             [cache EXCEPT
                                 !.hex_data[hex_key].fillColor =
                                     IF cache.hex_data[hex_key].fillColor # None
                                     THEN DEFAULT_COLOR ELSE @,
                                 !.lines = task.lines]]
                    ELSE [rooms EXCEPT ![room_id] =
                             [cache EXCEPT !.lines = Append(@, task.line_data)]]
        /\ out' = IF st = "notify_admin_rooms_of_room_update"
                  THEN notify_admin_rooms_of_room_update(admin_rooms, room_id)
                  ELSE emitted
        /\ UNCHANGED <<db_units, user_sessions, sio_rooms>>

\* the event loop calls the handler of a join_room of sid
begin_join_room(sid, room_id, room_password) ==
    LET room_meta == get_room(room_id)
    IN  /\ loop.running = 0
        /\ loop.coro[sid] = NoTask
        /\ user_sessions[sid].connected
        /\ IF ~room_meta.exists \/ ~verify_room_password(room_meta, room_password)
           THEN handle_join_room(sid, room_id, room_password)
           ELSE /\ loop' = [loop EXCEPT
                               !.running = sid,
                               !.coro[sid] = [NoTask EXCEPT !.handler = "join_room",
                                                            !.pc = 1,
                                                            !.room_id = room_id]]
                /\ out' = <<>>
                /\ UNCHANGED <<store, rooms, user_sessions, sio_rooms>>

\* the coroutine of a join_room executes its next statement.  A statement
\* that subscripts user_sessions with a sid that has disconnected, or rooms
\* with a room that is no longer cached, raises KeyError
resume_join_room(sid) ==
    LET task == loop.coro[sid]
        statements == Statements[task.handler]
        st == statements[task.pc]
        room_id == task.room_id
        room_state == task.room_state
        raises == \/ st = "session" /\ ~user_sessions[sid].connected
                  \/ st \in {"users", "update_room_activity", "emit", "emit_user_joined"}
                     /\ ~rooms[room_id].cached
        returns == raises \/ task.pc = Len(statements)
        yields == returns \/ st \in Awaited
        next == [task EXCEPT
                    !.pc = @ + 1,
                    !.room_state = IF st = "get_room_state"
                                   THEN get_room_state(room_id) ELSE @]
    IN  /\ task.handler = "join_room"
        /\ loop.running \in {0, sid}
        /\ loop' = [loop EXCEPT !.running = IF yields THEN 0 ELSE sid,
                                !.coro[sid] = IF returns THEN NoTask ELSE next]
        /\ rooms' = IF st = "cache" /\ ~rooms[room_id].cached
                    THEN [rooms EXCEPT ![room_id] =
                             [cached |-> TRUE, hex_data |-> room_state.hex_data,
                              lines |-> room_state.lines, units |-> room_state.units,
                              users |-> {}, owner |-> room_state.owner]]
                    ELSE IF st = "users" /\ ~raises
                    THEN [rooms EXCEPT ![room_id].users = @ \cup {sid}]
                    ELSE rooms
        /\ sio_rooms' = IF st = "enter_room"
                        THEN [sio_rooms EXCEPT ![room_id] = @ \cup {sid}]
                        ELSE sio_rooms
        /\ user_sessions' = IF st = "session" /\ ~raises
                            THEN [user_sessions EXCEPT ![sid].room_id = room_id,
                                                       ![sid].is_admin_room = FALSE]
                            ELSE user_sessions
        /\ out' = IF raises THEN <<>>
                  ELSE IF st = "emit"
                  THEN <<Msg("room_joined", sid, ToSid(sid), 0,
                             [room_id |-> room_id,
                              is_owner |-> room_state.owner # None
                                           /\ user_sessions[sid].username = room_state.owner,
                              hex_data |-> room_state.hex_data,
                              lines |-> room_state.lines,
                              units |-> room_state.units])>>
                  ELSE IF st = "emit_user_joined"
                  THEN <<Msg("user_joined", sid, ToRoomSkip(room_id, sid), 0, <<>>)>>
                  ELSE <<>>
        /\ UNCHANGED store

\* the event loop calls the handler of an admin_delete_room of sid: with
\* nobody in the room the handler goes straight to delete_room
begin_admin_delete_room(sid, target_room_id) ==
    LET user_data == user_sessions[sid]
        active_users == rooms[target_room_id].users
    IN  /\ loop.running = 0
        /\ loop.coro[sid] = NoTask
        /\ user_data.connected
        /\ IF \/ ~is_authenticated(user_data)
              \/ ~is_admin_user(user_data.username)
              \/ ~get_room(target_room_id).exists
           THEN handle_admin_delete_room(sid, target_room_id)
           ELSE /\ loop' = [loop EXCEPT
                               !.running = sid,
                               !.coro[sid] =
                                   [NoTask EXCEPT !.handler = "admin_delete_room",
                                                  !.pc = IF active_users # {} THEN 1 ELSE 4,
                                                  !.room_id = target_room_id]]
                /\ out' = <<>>
                /\ UNCHANGED <<store, rooms, user_sessions, sio_rooms>>

\* the coroutine of an admin_delete_room executes its next statement.
\* active_users is the users dict of the cache entry itself, so the list the
\* loop walks holds whoever is in it when the loop starts; each pass of the
\* loop takes one sid of the list and ends in an awaited leave_room
resume_admin_delete_room(sid) ==
    LET task == loop.coro[sid]
        statements == Statements[task.handler]
        st == statements[task.pc]
        target_room_id == task.room_id
        passes == st = "leave_room" /\ task.user_sids # {}
        returns == task.pc = Len(statements)
        yields == returns \/ (st \in Awaited /\ (st = "leave_room" => passes))
    IN  /\ task.handler = "admin_delete_room"
        /\ loop.running \in {0, sid}
        /\ \E user_sid \in IF passes THEN task.user_sids ELSE {sid} :
              LET next == [task EXCEPT
                              !.pc = IF passes /\ task.user_sids # {user_sid}
                                     THEN @ ELSE @ + 1,
                              !.user_sids = IF st = "list_active_users"
                                            THEN rooms[target_room_id].users
                                            ELSE IF passes THEN @ \ {user_sid}
                                            ELSE @]
              IN  /\ loop' = [loop EXCEPT !.running = IF yields THEN 0 ELSE sid,
                                          !.coro[sid] = IF returns THEN NoTask ELSE next]
                  /\ user_sessions' =
                         IF passes /\ user_sessions[user_sid].connected
                         THEN [user_sessions EXCEPT ![user_sid].room_id = None,
                                                    ![user_sid].is_admin_room = FALSE]
                         ELSE user_sessions
                  /\ sio_rooms' = IF passes
                                  THEN [sio_rooms EXCEPT ![target_room_id] = @ \ {user_sid}]
                                  ELSE sio_rooms
        /\ db_rooms' = IF st = "delete_room" THEN delete_room(db_rooms, target_room_id)
                       ELSE db_rooms
        /\ rooms' = IF st = "del_rooms" THEN [rooms EXCEPT ![target_room_id] = NoCache]
                    ELSE rooms
        /\ out' = IF st = "emit_room_deleted"
                  THEN <<Msg("room_deleted", sid, ToRoom(target_room_id), 0, <<>>)>>
                  ELSE IF st = "emit"
                  THEN <<Msg("room_deleted", sid, ToSid(sid), 0, target_room_id)>>
                  ELSE IF st = "emit_room_list_refresh"
                  THEN <<Msg("room_list_refresh", sid,
                             {s \in Sids : user_sessions[s].connected}, 0, target_room_id)>>
                  ELSE <<>>
        /\ UNCHANGED <<db_hexes, db_lines, db_units>>

(***************************************************************************)
(* The server                                                              *)
(***************************************************************************)
\* The handlers, grouped, over the sessions, rooms, cells, colours and ids
\* the clients use
Connecting(S) ==
    \E sid \in S :
        \/ handle_connect(sid)
        \/ handle_disconnect(sid)
        \/ handle_leave_room(sid)

Authenticating(S, U) ==
    \E sid \in S, username \in U : handle_authenticate(sid, username)

\* what generate_room_id may return in a row: one id, or two
RoomDraws == {<<a>> : a \in RoomIds} \cup {<<a, b>> : a, b \in RoomIds}

\* rooms created under the first unused id of a run of draws
Creating(S, D) ==
    \E sid \in S, draws \in D, salt \in Salts : handle_create_room(sid, draws, None, salt)

\* rooms without a password
Rooming(S, R) ==
    \E sid \in S, room_id \in R :
        \/ \E salt \in Salts : handle_create_room(sid, <<room_id>>, None, salt)
        \/ handle_join_room(sid, room_id, None)

\* rooms created with a password of P, joined with one of P
Locking(S, R, P) ==
    \E sid \in S, room_id \in R, room_password \in P :
        \/ \E salt \in Salts : handle_create_room(sid, <<room_id>>, room_password, salt)
        \/ handle_join_room(sid, room_id, room_password)

Deleting(S, R) ==
    \E sid \in S :
        \/ handle_delete_room(sid)
        \/ \E room_id \in R : handle_admin_delete_room(sid, room_id)

HexEditing(S, K, C) ==
    \E sid \in S, k \in K :
        \/ \E c \in C : handle_hex_update(sid, k, c)
        \/ handle_hex_erase(sid, k)

LineEditing(S, L, K) ==
    \E sid \in S, id \in L, a \in K, b \in K : handle_line_add(sid, id, a, b)

UnitEditing(S, U, K) ==
    \E sid \in S, id \in U :
        \/ \E k \in K, p \in (U \ {id}) \cup {None} : handle_unit_add(sid, id, k, p)
        \/ handle_unit_update(sid, id)
        \/ \E p \in (U \ {id}) \cup {None}, k \in {None} \cup K :
               handle_unit_reparent(sid, id, p, k)
        \/ \E k \in K : handle_unit_move(sid, id, k)
        \/ handle_unit_delete(sid, id)

Importing(S, P) ==
    \E sid \in S, payload \in P : handle_replace_room_state(sid, payload)

\* the same edits when one of their store calls raises
Failing(S, K, C, L) ==
    \E sid \in S, k \in K :
        \/ \E c \in C, failing \in Range(StoreCalls.hex_update) :
               handle_hex_update_raising(sid, k, c, failing)
        \/ \E id \in L, b \in K, failing \in Range(StoreCalls.line_add) :
               handle_line_add_raising(sid, id, k, b, failing)
        \/ \E failing \in Range(StoreCalls.hex_erase) :
               handle_hex_erase_raising(sid, k, failing)

Overlaying(S, R) ==
    \E sid \in S, room_id \in R, enabled \in BOOLEAN :
        handle_admin_toggle_room(sid, room_id, enabled)

Next ==
    \/ Connecting(Sids)
    \/ Authenticating(Sids, Usernames \cup {None})
    \/ Rooming(Sids, RoomIds)
    \/ Locking(Sids, RoomIds, Passwords)
    \/ Deleting(Sids, RoomIds)
    \/ HexEditing(Sids, Keys, Colors)
    \/ LineEditing(Sids, LineIds, Keys)
    \/ UnitEditing(Sids, UnitIds, Keys)
    \/ Importing(Sids, ReplacePayloads)
    \/ Overlaying(Sids, RoomIds)
    \/ Failing(Sids, Keys, Colors, LineIds)
    \/ Creating(Sids, RoomDraws)
    \/ lifespan

Spec == Init /\ [][Next]_vars

\* One room and every kind of mutation of it, by its owner and a guest
NextSync ==
    \/ Connecting(Sids)
    \/ Authenticating({1}, {"usr"})
    \/ Rooming(Sids, {"A"})
    \/ HexEditing(Sids, {"k1"}, {"red"})
    \/ LineEditing(Sids, {"l1"}, {"k1"})
    \/ UnitEditing(Sids, {"u1"}, Keys)
    \/ Importing(Sids, ReplacePayloads)

SpecSync == Init /\ [][NextSync]_vars

\* One room, its cells painted and erased by its members
NextHex ==
    \/ Connecting(Sids)
    \/ Rooming(Sids, {"A"})
    \/ HexEditing(Sids, Keys, Colors)

SpecHex == Init /\ [][NextHex]_vars

\* One room with lines and units on its cells, erased cell by cell
NextErase ==
    \/ Connecting(Sids)
    \/ Rooming(Sids, {"A"})
    \/ HexEditing(Sids, Keys, {"red"})
    \/ LineEditing(Sids, LineIds, Keys)
    \/ \E sid \in Sids, id \in {"u1"}, k \in Keys : handle_unit_add(sid, id, k, None)

SpecErase == Init /\ [][NextErase]_vars

\* One room and the unit on one of its cells: two sessions edit, erase and
\* delete, an admin imports, every session comes and goes
NextUnits ==
    \/ Connecting(Sids)
    \/ Authenticating({1}, {"adm"})
    \/ Rooming(Sids, {"A"})
    \/ Deleting({1, 2}, {"A"})
    \/ \E sid \in {1, 2} : handle_hex_erase(sid, "k1")
    \/ UnitEditing({1, 2}, {"u1"}, {"k1"})
    \/ Importing({1}, ReplacePayloads)

SpecUnits == Init /\ [][NextUnits]_vars

\* One room, a unit and the unit attached to it, moved from cell to cell
NextMove ==
    \/ Connecting(Sids)
    \/ Rooming(Sids, {"A"})
    \/ UnitEditing(Sids, UnitIds, Keys)

SpecMove == Init /\ [][NextMove]_vars

\* One room, imports by its owner, by an admin, by a user and by a guest:
\* session 1 is a guest or the user, session 2 a guest or the admin
NextImport ==
    \/ Connecting(Sids)
    \/ Authenticating({1}, {"usr"})
    \/ Authenticating({2}, {"adm"})
    \/ Rooming(Sids, {"A"})
    \/ \E sid \in Sids : handle_hex_update(sid, "k1", "red")
    \/ Importing(Sids, ReplacePayloads)

SpecImport == Init /\ [][NextImport]_vars

\* Two rooms painted by one admin, who overlays them
NextOverlay ==
    \/ handle_connect(1)
    \/ handle_authenticate(1, "adm")
    \/ Rooming({1}, RoomIds)
    \/ \E c \in {"red", "blue"} : handle_hex_update(1, "k1", c)
    \/ Overlaying({1}, RoomIds)

SpecOverlay == Init /\ [][NextOverlay]_vars

\* Two rooms that come and go: an admin and a guest create, join, fill and
\* delete them
NextRooms ==
    \/ Connecting(Sids)
    \/ Authenticating({1}, {"adm"})
    \/ Rooming({1, 2}, RoomIds)
    \/ Deleting({1, 2}, RoomIds)
    \/ \E sid \in {1, 2} : handle_unit_add(sid, "u1", "k1", None)

SpecRooms == Init /\ [][NextRooms]_vars

\* Two rooms deleted by their participants and by admin_delete_room, sent
\* by a session that signs in as the admin or as a user, and by a guest
NextAdmin ==
    \/ Connecting(Sids)
    \/ Authenticating({1}, Usernames)
    \/ Rooming({1, 2}, RoomIds)
    \/ Deleting({1, 2}, RoomIds)

SpecAdmin == Init /\ [][NextAdmin]_vars

\* One room painted, lined and erased over a store whose calls may raise
NextFailure ==
    \/ Connecting(Sids)
    \/ Rooming({1, 2}, {"A"})
    \/ HexEditing({1, 2}, {"k1"}, {"red"})
    \/ LineEditing({1, 2}, {"l1"}, {"k1"})
    \/ Failing({1, 2}, {"k1"}, {"red"}, {"l1"})

SpecFailure == Init /\ [][NextFailure]_vars

\* Two rooms, created with or without a password, joined with the right
\* password, a wrong one or none
NextLock ==
    \/ Connecting(Sids)
    \/ Rooming({1, 2}, RoomIds)
    \/ Locking({1, 2}, RoomIds, Passwords)
    \/ \E sid \in {1, 2} : handle_delete_room(sid)

SpecLock == Init /\ [][NextLock]_vars

\* Rooms created under drawn ids beside painted rooms, over restarts of
\* the process
NextCreate ==
    \/ Connecting(Sids)
    \/ Creating({1, 2}, RoomDraws)
    \/ \E room_id \in RoomIds : handle_join_room(1, room_id, None)
    \/ handle_hex_update(1, "k1", "red")
    \/ handle_delete_room(2)
    \/ lifespan

SpecCreate == Init /\ [][NextCreate]_vars

\* One room with a line and a unit on a cell that is painted, painted with
\* the default color, and erased
NextPaint ==
    \/ Connecting(Sids)
    \/ Rooming({1, 2}, {"A"})
    \/ HexEditing({1, 2}, {"k1"}, {DEFAULT_COLOR, "red"})
    \/ \E sid \in {1, 2} : handle_line_add(sid, "l1", "k1", "k2")
    \/ \E sid \in {1, 2} : handle_unit_add(sid, "u1", "k1", None)

SpecPaint == Init /\ [][NextPaint]_vars

\* Two rooms with a line and a unit, overlaid by one admin
NextComposite ==
    \/ handle_connect(1)
    \/ handle_authenticate(1, "adm")
    \/ Rooming({1}, RoomIds)
    \/ \E id \in LineIds : handle_line_add(1, id, "k1", "k2")
    \/ handle_unit_add(1, "u1", "k1", None)
    \/ Overlaying({1}, RoomIds)

SpecComposite == Init /\ [][NextComposite]_vars

\* Two admins in a painted room, each with its own overlay toggles
NextViewers ==
    \/ \E sid \in {1, 2} : handle_connect(sid) \/ handle_authenticate(sid, "adm")
    \/ Rooming({1}, {"A"})
    \/ handle_join_room(2, "A", None)
    \/ handle_hex_update(1, "k1", "red")
    \/ Overlaying({1, 2}, {"A"})

SpecViewers == Init /\ [][NextViewers]_vars

\* One room whose cells are painted, erased and imported, default color
\* included
NextSparse ==
    \/ Connecting({1, 2})
    \/ Authenticating({1}, {"adm"})
    \/ Rooming({1, 2}, {"A"})
    \/ HexEditing({1, 2}, Keys, {DEFAULT_COLOR, "red"})
    \/ Importing({1, 2}, ReplacePayloads)

SpecSparse == Init /\ [][NextSparse]_vars

\* One room whose cell two sessions paint, erase and join by a line in
\* handlers that the event loop interleaves; the other events run while no
\* coroutine is running
NextLoop ==
    \/ loop.running = 0 /\ Connecting({1, 2})
    \/ loop.running = 0 /\ Rooming({1, 2}, {"A"})
    \/ \E sid \in {1, 2} : begin(sid, "hex_update", "k1", "red")
    \/ \E sid \in {1, 2} : begin(sid, "hex_erase", "k1", None)
    \/ \E sid \in {1, 2} : begin_line_add(sid, "l1", "k1", "k2")
    \/ \E sid \in {1, 2} : resume(sid)

SpecLoop == Init /\ [][NextLoop]_vars

\* One room that a session paints while another joins it, in handlers that
\* the event loop interleaves
NextJoin ==
    \/ loop.running = 0 /\ Connecting({1, 2})
    \/ loop.running = 0 /\ \E salt \in Salts : handle_create_room(1, <<"A">>, None, salt)
    \/ \E sid \in {1, 2} : begin(sid, "hex_update", "k1", "red")
    \/ \E sid \in {1, 2} : begin_join_room(sid, "A", None)
    \/ \E sid \in {1, 2} : resume(sid)
    \/ \E sid \in {1, 2} : resume_join_room(sid)

SpecJoin == Init /\ [][NextJoin]_vars

\* One room that an admin deletes while a session joins it or paints it, in
\* handlers that the event loop interleaves
NextDelete ==
    \/ loop.running = 0 /\ Connecting({1, 2})
    \/ loop.running = 0 /\ handle_authenticate(1, "adm")
    \/ loop.running = 0 /\ \E sid \in {1, 2}, salt \in Salts :
                               handle_create_room(sid, <<"A">>, None, salt)
    \/ begin(2, "hex_update", "k1", "red")
    \/ begin_join_room(2, "A", None)
    \/ begin_admin_delete_room(1, "A")
    \/ resume(2)
    \/ resume_join_room(2)
    \/ resume_admin_delete_room(1)

SpecDelete == Init /\ [][NextDelete]_vars

\* An admin paints room A and imports into it while room B holds a line
\* and a unit under ids that the imports use
NextReplace ==
    \/ Connecting({1, 2})
    \/ Authenticating({1}, {"adm"})
    \/ Rooming({1}, {"A"})
    \/ Rooming({2}, {"B"})
    \/ handle_hex_update(1, "k1", "red")
    \/ handle_line_add(2, "l1", "k1", "k2")
    \/ handle_unit_add(2, "u2", "k1", None)
    \/ Importing({1}, ReplacePayloads)

SpecReplace == Init /\ [][NextReplace]_vars

\* Two rooms whose members draw lines and place units under the same ids
NextScope ==
    \/ Connecting({1, 2})
    \/ Rooming({1}, {"A"})
    \/ Rooming({2}, {"B"})
    \/ \E sid \in {1, 2} : handle_line_add(sid, "l1", "k1", "k2")
    \/ \E sid \in {1, 2} : handle_unit_add(sid, "u1", "k1", None)

SpecScope == Init /\ [][NextScope]_vars

(***************************************************************************)
(* Properties                                                              *)
(***************************************************************************)
\* the events the mutating handlers broadcast to a room
MutationEvents ==
    {"hex_updated", "hex_erased", "line_added", "unit_added", "unit_updated",
     "unit_moved", "unit_deleted", "room_state_replaced"}

\* the handler that ran last broadcast a mutation; SenderRoom is its room
Broadcasting == out # <<>> /\ out[1].name \in MutationEvents
SenderRoom == user_sessions[out[1].sid].room_id

RoomLines(dbl, r) == {l \in Range(dbl) : l.room = r}
RoomUnits(dbu, r) == {u \in Range(dbu) : u.room = r}

\* C1: a room's stored version is 1 when the room is created; no step
\* lowers it or raises it by more than one; a step that broadcasts a
\* mutation of the room, or that changes the room's stored cells, lines or
\* units, raises it by exactly one.
VersionStepsByOne ==
    [][\A r \in RoomIds :
        /\ (~db_rooms[r].exists /\ db_rooms'[r].exists) => db_rooms'[r].version = 1
        /\ (db_rooms[r].exists /\ db_rooms'[r].exists) =>
              /\ db_rooms'[r].version \in {db_rooms[r].version, db_rooms[r].version + 1}
              /\ (Broadcasting' /\ SenderRoom' = r) =>
                    db_rooms'[r].version = db_rooms[r].version + 1
              /\ (\/ db_hexes'[r] # db_hexes[r]
                  \/ RoomLines(db_lines', r) # RoomLines(db_lines, r)
                  \/ RoomUnits(db_units', r) # RoomUnits(db_units, r)) =>
                    db_rooms'[r].version = db_rooms[r].version + 1
      ]_vars

\* a room that three accepted mutations, an import the last, brought to version 4
VersionRaisedThreeTimes ==
    /\ Broadcasting
    /\ out[1].name = "room_state_replaced"
    /\ out[1].room_version = 4
    /\ db_rooms[SenderRoom].version = 4

\* what the store holds of the mutation the message m reports for room r
StoreHolds(m, r) ==
    LET state == get_room_state(r)
    IN  CASE m.name = "hex_updated" ->
                state.hex_data[m.data.hex_key].fillColor =
                    IF m.data.fill_color = DEFAULT_COLOR THEN None ELSE m.data.fill_color
          [] m.name = "hex_erased" ->
                /\ state.hex_data[m.data.hex_key].fillColor = None
                /\ \A i \in 1..Len(state.lines) :
                       /\ state.lines[i].start # m.data.hex_key
                       /\ state.lines[i].end # m.data.hex_key
                /\ m.data.lines = state.lines
          [] m.name = "line_added" ->
                \E i \in 1..Len(state.lines) : state.lines[i] = m.data
          [] m.name = "unit_added" ->
                \E i \in 1..Len(state.units) :
                    /\ state.units[i].id = m.data.id
                    /\ state.units[i].hex_key = m.data.hex_key
          [] m.name = "unit_updated" ->
                \E u \in RoomUnits(db_units, r) :
                    /\ u.unit_id = m.data.id
                    /\ u.hex_key = m.data.hex_key
                    /\ u.parent = m.data.parent_unit_id
          [] m.name = "unit_moved" ->
                \A i \in 1..Len(state.units) :
                    state.units[i].id = m.data.unit_id =>
                        state.units[i].hex_key = m.data.hex_key
          [] m.name = "unit_deleted" ->
                \A i \in 1..Len(state.units) : state.units[i].id # m.data.unit_id
          [] m.name = "room_state_replaced" ->
                /\ m.data.hex_data = state.hex_data
                /\ m.data.lines = state.lines
                /\ m.data.units = state.units

HexUpdateReachesTheOtherMember ==
    [][\A sid \in Sids, k \in Keys, c \in Colors :
        (/\ user_sessions[sid].room_id # None
         /\ handle_hex_update(sid, k, c)) =>
            \A t \in Sids \ {sid} :
                rooms[user_sessions[sid].room_id].users = {sid, t} =>
                    /\ \E i \in 1..Len(out') :
                           /\ out'[i].name = "hex_updated"
                           /\ t \in out'[i].to
                           /\ out'[i].data = [hex_key |-> k, fill_color |-> c]
                           /\ out'[i].room_version =
                                  db_rooms[user_sessions[sid].room_id].version + 1
                    /\ \A i \in 1..Len(out') :
                           out'[i].name = "hex_updated" => sid \notin out'[i].to
      ]_vars

\* the first edit of a room of two: the other member is sent version 2
FirstHexUpdateDelivered ==
    /\ out # <<>>
    /\ out[1].name = "hex_updated"
    /\ out[1].sid = 1
    /\ out[1].to = {2}
    /\ out[1].room_version = 2
    /\ rooms["A"].users = {1, 2}

\* C4, as stated: the broadcast of an accepted mutation is delivered to
\* the session that sent it if and only if the event is unit_add.
SenderEchoedOnlyOnUnitAdd ==
    Broadcasting => ((out[1].sid \in out[1].to) <=> out[1].name = "unit_added")

\* C4, amended: the broadcast of an accepted mutation is delivered to the
\* session that sent it if and only if it is unit_added, unit_updated
\* (unit_update and unit_reparent) or room_state_replaced; hex_updated,
\* hex_erased, line_added, unit_moved and unit_deleted skip the sender.
SenderEchoedOnUnitEventsAndImport ==
    Broadcasting =>
        ((out[1].sid \in out[1].to) <=>
            out[1].name \in {"unit_added", "unit_updated", "room_state_replaced"})

\* a unit_updated delivered to both members of the room, the sender included
UnitUpdateEchoed ==
    /\ Broadcasting
    /\ out[1].name = "unit_updated"
    /\ out[1].sid \in out[1].to
    /\ Cardinality(out[1].to) = 2

\* C5: after hex_update sets a cell to "lightgray" the room state read
\* from the store has no entry for the cell, and after it sets the cell to
\* another color the state read has exactly that color for the cell,
\* whatever the cell held before.
SparseStorageRoundTrip ==
    [][\A sid \in Sids, k \in Keys, c \in Colors :
        (/\ user_sessions[sid].room_id # None
         /\ handle_hex_update(sid, k, c)) =>
            get_room_state_of(db_rooms', db_hexes', db_lines', db_units',
                              user_sessions[sid].room_id).hex_data[k] =
                IF c = DEFAULT_COLOR THEN NoHex
                ELSE [fillColor |-> c, rooms |-> <<>>]
      ]_vars

\* the second edit of a room sets a cell to "lightgray" and the store has
\* no row for the cell
DefaultColorLeavesNoRow ==
    /\ out # <<>>
    /\ out[1].name = "hex_updated"
    /\ out[1].data.fill_color = DEFAULT_COLOR
    /\ out[1].room_version = 3
    /\ get_room_state(SenderRoom).hex_data[out[1].data.hex_key] = NoHex

\* C6: hex_erase on a cell removes from the room, in the store and in the
\* cache, every line with its start or its end at the cell and no other
\* line.
EraseRemovesLinesAtCell ==
    [][\A sid \in Sids, k \in Keys :
        (/\ user_sessions[sid].room_id # None
         /\ handle_hex_erase(sid, k)) =>
            LET r == user_sessions[sid].room_id
            IN  /\ Range(db_lines') \subseteq Range(db_lines)
                /\ \A l \in Range(db_lines) :
                       l \in Range(db_lines') <=>
                           ~(/\ l.room = r
                             /\ (l.payload.start = k \/ l.payload.end = k))
                /\ Range(rooms'[r].lines) = {l.payload : l \in RoomLines(db_lines', r)}
      ]_vars

\* an erase, the third mutation of a room in which no cell was ever
\* painted, leaves one line, whose endpoints are both on another cell
EraseKeepsLineElsewhere ==
    /\ out # <<>>
    /\ out[1].name = "hex_erased"
    /\ out[1].room_version = 4
    /\ \A k \in Keys : rooms[SenderRoom].hex_data[k].fillColor = None
    /\ Len(db_lines) = 1
    /\ db_lines[1].payload.start # out[1].data.hex_key
    /\ db_lines[1].payload.end # out[1].data.hex_key
    /\ rooms[SenderRoom].lines = <<db_lines[1].payload>>

StoredUnit(dbu, r, u) == \E row \in RoomUnits(dbu, r) : row.unit_id = u
CachedUnit(cache, u) == \E i \in 1..Len(cache.units) : cache.units[i].id = u

\* C7: hex_erase leaves every unit, in the store and in the cache, as it
\* was, those on the erased cell included; a unit leaves the store or the
\* cache only in a step of unit_delete, replace_room_state or a room deletion.
UnitsOutliveErase ==
    [][/\ (out' # <<>> /\ out'[1].name = "hex_erased") =>
              /\ db_units' = db_units
              /\ \A r \in RoomIds : rooms'[r].units = rooms[r].units
       /\ \A r \in RoomIds, u \in UnitIds :
              (\/ StoredUnit(db_units, r, u) /\ ~StoredUnit(db_units', r, u)
               \/ CachedUnit(rooms[r], u) /\ ~CachedUnit(rooms'[r], u)) =>
                  /\ out' # <<>>
                  /\ out'[1].name \in {"unit_deleted", "room_state_replaced", "room_deleted"}
      ]_vars

\* a cell was erased under a unit, which the store and the cache still have there
UnitOnErasedCell ==
    /\ out # <<>>
    /\ out[1].name = "hex_erased"
    /\ \E row \in RoomUnits(db_units, SenderRoom) : row.hex_key = out[1].data.hex_key
    /\ \E i \in 1..Len(rooms[SenderRoom].units) :
           rooms[SenderRoom].units[i].hex_key = out[1].data.hex_key

\* c is attached to u in room r: the units row says so or the unit the
\* server holds for c carries parent_unit_id u
AttachedTo(r, c, u) ==
    \/ \E row \in RoomUnits(db_units, r) : row.unit_id = c /\ row.parent = u
    \/ \E i \in 1..Len(rooms[r].units) :
           rooms[r].units[i].id = c /\ rooms[r].units[i].parent_unit_id = u

\* C8: after an accepted unit_move of unit u to cell k the room state read
\* from the store has u on k and every unit attached to u on k.
MoveCarriesAttachedUnitsInStore ==
    [][\A sid \in Sids, u \in UnitIds, k \in Keys :
        (/\ user_sessions[sid].room_id # None
         /\ handle_unit_move(sid, u, k)) =>
            LET r == user_sessions[sid].room_id
                units == get_room_state_of(db_rooms', db_hexes', db_lines',
                                           db_units', r).units
            IN  \A i \in 1..Len(units) :
                    (units[i].id = u \/ AttachedTo(r, units[i].id, u)) =>
                        units[i].hex_key = k
      ]_vars

\* C9: replace_room_state from a session that is neither the room's owner
\* nor an authenticated admin sends room_error to that session alone and
\* changes nothing in the store or the cache; a room without an owner has
\* no owner session.
ImportByStrangerRejected ==
    [][\A sid \in Sids, payload \in ReplacePayloads :
        (/\ user_sessions[sid].room_id # None
         /\ db_rooms[user_sessions[sid].room_id].exists
         /\ \/ user_sessions[sid].username = None
            \/ /\ user_sessions[sid].username # db_rooms[user_sessions[sid].room_id].owner
               /\ user_sessions[sid].username \notin Admins
         /\ handle_replace_room_state(sid, payload)) =>
            /\ Len(out') = 1
            /\ out'[1].name = "room_error"
            /\ out'[1].to = {sid}
            /\ UNCHANGED <<db_rooms, db_hexes, db_lines, db_units, rooms>>
      ]_vars

\* an authenticated user who is no admin was refused the import of a room
\* that has no owner
ImportRefusedInOwnerlessRoom ==
    /\ out # <<>>
    /\ out[1].name = "room_error"
    /\ out[1].data = "Only room owner or admin can replace room state"
    /\ user_sessions[out[1].sid].username = "usr"
    /\ db_rooms[SenderRoom].exists
    /\ db_rooms[SenderRoom].owner = None

\* the viewer's enabled rooms that have a color on cell k, in toggle order
RECURSIVE ColoredRooms(_, _)
ColoredRooms(toggles, k) ==
    IF toggles = <<>> THEN <<>>
    ELSE (IF /\ Head(toggles).enabled
             /\ db_rooms[Head(toggles).room_id].exists
             /\ db_hexes[Head(toggles).room_id][k] # None
          THEN <<[room_id |-> Head(toggles).room_id,
                  fillColor |-> db_hexes[Head(toggles).room_id][k]]>>
          ELSE <<>>) \o ColoredRooms(Tail(toggles), k)

\* C10: in the composite view sent to an admin viewer, a cell colored in
\* at least one enabled room has the color of the first enabled room, in
\* the order of the viewer's toggle map, that colors it, and its
\* contributor list holds every enabled room that colors it, in that order.
FirstColoredRoomIsPrimary ==
    [][\A sid \in Sids, target_room_id \in RoomIds, enabled \in BOOLEAN :
        (/\ handle_admin_toggle_room(sid, target_room_id, enabled)
         /\ out'[1].name = "admin_room_overlay_updated") =>
            \A k \in Keys :
                LET colored == ColoredRooms(user_sessions'[sid].admin_toggles, k)
                IN  colored # <<>> =>
                        /\ out'[1].data.hex_data[k].fillColor = Head(colored).fillColor
                        /\ out'[1].data.hex_data[k].rooms = colored
      ]_vars

\* session v has room r enabled in its own toggle map
HasEnabled(v, r) ==
    \E i \in 1..Len(user_sessions[v].admin_toggles) :
        /\ user_sessions[v].admin_toggles[i].room_id = r
        /\ user_sessions[v].admin_toggles[i].enabled

\* C11: after an accepted mutation of room r, every admin viewer whose own
\* toggle map has r enabled is sent a recomputed aggregate, addressed to
\* that viewer alone.
AdminViewersSentAggregate ==
    Broadcasting =>
        \A v \in Sids :
            (user_sessions[v].connected /\ HasEnabled(v, SenderRoom)) =>
                \E i \in 1..Len(out) :
                    /\ out[i].name \in {"admin_room_data_updated",
                                        "admin_room_overlay_updated"}
                    /\ out[i].to = {v}

\* the hex, line and unit rows whose room_id is r
ChildRows(r) ==
    [hexes |-> {k \in Keys : db_hexes[r][k] # None},
     lines |-> RoomLines(db_lines, r),
     units |-> RoomUnits(db_units, r)]

NoChildRows == [hexes |-> {}, lines |-> {}, units |-> {}]

\* C12: a room that has no rooms row (never created, or deleted by
\* delete_room or admin_delete_room) has no hex, line or unit row either, so
\* a room created later under the same id starts with an empty map.
DeletedRoomLeavesNoRows ==
    \A r \in RoomIds : ~db_rooms[r].exists => ChildRows(r) = NoChildRows

\* the sessions whose current room is r
Participants(r) == {s \in Sids : user_sessions[s].connected /\ user_sessions[s].room_id = r}

\* C13: delete_room from a participant of an owned room that is not
\* authenticated as its owner is answered with room_error to that sender,
\* and the room stays in the store and in the cache.
DeleteRoomOnlyByOwner ==
    [][\A sid \in Sids :
        LET r == user_sessions[sid].room_id
        IN  (/\ r # None
             /\ db_rooms[r].exists
             /\ db_rooms[r].owner # None
             /\ user_sessions[sid].username # db_rooms[r].owner
             /\ handle_delete_room(sid)) =>
                /\ out'[1].name = "room_error"
                /\ out'[1].to = {sid}
                /\ db_rooms'[r] = db_rooms[r]
                /\ rooms'[r] = rooms[r]
      ]_vars

\* C14: delete_room from a session whose room has more than one participant
\* sends room_error to the sender alone and leaves the room's row and
\* version, its hex, line and unit rows, the cache and every session's room
\* and membership as they were.
DeleteWithOthersPresentRejected ==
    [][\A sid \in Sids :
        LET r == user_sessions[sid].room_id
        IN  (/\ r # None
             /\ Cardinality(Participants(r)) > 1
             /\ handle_delete_room(sid)) =>
                /\ Len(out') = 1
                /\ out'[1].name = "room_error"
                /\ out'[1].to = {sid}
                /\ UNCHANGED <<db_rooms, db_hexes, db_lines, db_units, rooms,
                               user_sessions, sio_rooms>>
      ]_vars

\* delete_room was refused in a painted room that two sessions are in
DeleteRefusedWithTwoPresent ==
    /\ out # <<>>
    /\ out[1].name = "room_error"
    /\ out[1].data = "Cannot delete room with other users present"
    /\ Cardinality(Participants(SenderRoom)) = 2
    /\ db_rooms[SenderRoom].exists
    /\ ChildRows(SenderRoom) # NoChildRows

\* C15: admin_delete_room from a requester that is not an authenticated
\* admin sends room_error to the sender alone and changes nothing; from an
\* admin it removes an existing room from the store and the cache whatever
\* the number of its participants, and no session is left with the deleted
\* room as its current room.
AdminDeleteRoomGuarded ==
    [][\A sid \in Sids, target_room_id \in RoomIds :
        handle_admin_delete_room(sid, target_room_id) =>
            IF user_sessions[sid].username \notin Admins
            THEN /\ Len(out') = 1
                 /\ out'[1].name = "room_error"
                 /\ out'[1].to = {sid}
                 /\ UNCHANGED <<db_rooms, db_hexes, db_lines, db_units, rooms,
                                user_sessions, sio_rooms>>
            ELSE db_rooms[target_room_id].exists =>
                    /\ ~db_rooms'[target_room_id].exists
                    /\ ~rooms'[target_room_id].cached
                    /\ \A s \in Participants(target_room_id) :
                            user_sessions'[s].room_id = None
      ]_vars

\* an admin deleted a room that two sessions were in: both were told, the
\* row is gone and nobody is in the room any more
AdminDeletedOccupiedRoom ==
    /\ Len(out) = 3
    /\ out[1].name = "room_deleted"
    /\ Cardinality(out[1].to) = 2
    /\ out[3].name = "room_list_refresh"
    /\ ~db_rooms[out[3].data].exists
    /\ Participants(out[3].data) = {}

\* the handler of session sid is left by an exception of a store call
\* during this step
StoreCallRaises(sid) ==
    \/ \E k \in Keys, c \in Colors, failing \in Range(StoreCalls.hex_update) :
           handle_hex_update_raising(sid, k, c, failing)
    \/ \E id \in LineIds, a \in Keys, b \in Keys, failing \in Range(StoreCalls.line_add) :
           handle_line_add_raising(sid, id, a, b, failing)
    \/ \E k \in Keys, failing \in Range(StoreCalls.hex_erase) :
           handle_hex_erase_raising(sid, k, failing)
    \/ \E id \in LineIds, a \in Keys, b \in Keys :
           /\ Editing(sid)
           /\ line_id_taken(db_lines, id)
           /\ handle_line_add(sid, id, a, b)

\* C16: when a store call fails during a mutating event nothing is emitted
\* for the event and the room cache is as it was before the event.
FailedStoreCallStopsPipeline ==
    [][\A sid \in Sids : StoreCallRaises(sid) => out' = <<>> /\ rooms' = rooms]_vars

\* a hex_update whose version increment failed: the color is stored, the
\* version and the cache do not have it, nothing was emitted
ColorStoredButNotCached ==
    /\ out = <<>>
    /\ db_rooms["A"].exists
    /\ db_rooms["A"].version = 1
    /\ db_hexes["A"]["k1"] = "red"
    /\ rooms["A"].cached
    /\ rooms["A"].hex_data["k1"].fillColor = None

\* C17: when a store call fails during a mutating event the originating
\* session is sent a failure signal for the event, and no other session is.
FailedStoreCallSignalledToSender ==
    [][\A sid \in Sids :
        StoreCallRaises(sid) =>
            /\ \E i \in 1..Len(out') : out'[i].to = {sid}
            /\ \A i \in 1..Len(out') : out'[i].to = {sid}
      ]_vars

\* C18: the store effects of a mutating event are all-or-nothing: when one
\* of its store calls fails the store is as it was before the event.
FailedEventLeavesStoreUntouched ==
    [][\A sid \in Sids :
        StoreCallRaises(sid) => UNCHANGED <<db_rooms, db_hexes, db_lines, db_units>>
      ]_vars

\* the password room r was created with, None if it has none
PasswordOf(r) ==
    IF db_rooms[r].has_password THEN db_rooms[r].password_hash.digest[1] ELSE None

\* C20: join_room for a room id that has no row, or for a room with a
\* password when the request carries none or another one, sends room_error
\* to the requesting session alone and leaves every session's room, every
\* room's participant set, the socket.io membership and the store as they
\* were; so a session enters a room that has a password only by creating it
\* or by a join_room that carries the room's password.
JoinRefusedWithoutMatchingPassword ==
    [][/\ \A sid \in Sids, r \in RoomIds, room_password \in Passwords \cup {None} :
            (/\ \/ ~db_rooms[r].exists
                \/ /\ db_rooms[r].has_password
                   /\ room_password # PasswordOf(r)
             /\ handle_join_room(sid, r, room_password)) =>
                /\ Len(out') = 1
                /\ out'[1].name = "room_error"
                /\ out'[1].to = {sid}
                /\ UNCHANGED <<db_rooms, db_hexes, db_lines, db_units, rooms,
                               user_sessions, sio_rooms>>
       /\ \A sid \in Sids, r \in RoomIds :
            (/\ db_rooms'[r].has_password
             /\ \/ user_sessions[sid].room_id # r /\ user_sessions'[sid].room_id = r
                \/ sid \notin rooms[r].users /\ sid \in rooms'[r].users
                \/ sid \notin sio_rooms[r] /\ sid \in sio_rooms'[r]) =>
                \/ \E room_password \in Passwords, salt \in Salts :
                       handle_create_room(sid, <<r>>, room_password, salt)
                \/ /\ db_rooms[r].has_password
                   /\ handle_join_room(sid, r, PasswordOf(r))
      ]_vars

\* a join_room with the wrong password was refused while the room's creator
\* is in the room: the sender is in no room and not among its participants
JoinRefusedForWrongPassword ==
    /\ out # <<>>
    /\ out[1].name = "room_error"
    /\ out[1].data = "Invalid room password"
    /\ db_rooms["A"].has_password
    /\ user_sessions[out[1].sid].room_id = None
    /\ out[1].sid \notin rooms["A"].users
    /\ out[1].sid \notin sio_rooms["A"]
    /\ Participants("A") # {}

\* C21: create_room assigns an id that identifies no room of the store,
\* whether or not the cache holds that room, and leaves the row, the
\* version and the hex, line and unit rows of every room of the store as
\* they were.
NewRoomIdUnused ==
    [][\A sid \in Sids, draws \in RoomDraws, room_password \in Passwords \cup {None},
          salt \in Salts :
        handle_create_room(sid, draws, room_password, salt) =>
            /\ out'[1].name = "room_created"
            /\ ~db_rooms[out'[1].data.room_id].exists
            /\ db_rooms'[out'[1].data.room_id].exists
            /\ \A r \in RoomIds :
                   db_rooms[r].exists =>
                       /\ db_rooms'[r] = db_rooms[r]
                       /\ db_hexes'[r] = db_hexes[r]
                       /\ RoomLines(db_lines', r) = RoomLines(db_lines, r)
                       /\ RoomUnits(db_units', r) = RoomUnits(db_units, r)
      ]_vars

\* a room was created while a painted room is in the store and not in the
\* cache
CreatedBesideUncachedRoom ==
    /\ out # <<>>
    /\ out[1].name = "room_created"
    /\ \E r \in RoomIds \ {out[1].data.room_id} :
           /\ db_rooms[r].exists
           /\ ~rooms[r].cached
           /\ db_hexes[r]["k1"] = "red"

\* C22: hex_update with any color, the default color included, leaves the
\* line and unit rows of the store and the lines and units of the room's
\* cache entry as they were.
HexUpdateNeverCascades ==
    [][\A sid \in Sids, k \in Keys, c \in Colors :
        handle_hex_update(sid, k, c) =>
            /\ db_lines' = db_lines
            /\ db_units' = db_units
            /\ \A r \in RoomIds :
                   /\ rooms'[r].lines = rooms[r].lines
                   /\ rooms'[r].units = rooms[r].units
      ]_vars

\* a cell that a line ends on and a unit stands on was painted with the
\* default color: the line and the unit are in the store and in the cache
DefaultColorKeptLineAndUnit ==
    /\ out # <<>>
    /\ out[1].name = "hex_updated"
    /\ out[1].data.fill_color = DEFAULT_COLOR
    /\ \E l \in RoomLines(db_lines, SenderRoom) : line_touches(l.payload, out[1].data.hex_key)
    /\ \E u \in RoomUnits(db_units, SenderRoom) : u.hex_key = out[1].data.hex_key
    /\ rooms[SenderRoom].lines # <<>>
    /\ rooms[SenderRoom].units # <<>>

\* the entries of a composite (the payload data of admin_room_overlay_updated,
\* sent to a viewer whose room is current) that show line id of room r: the
\* tagged ones, and the untagged ones of the viewer's own room
LineEntries(data, current, r, id) ==
    [tagged |-> {i \in 1..Len(data.lines) :
                    data.lines[i].room_id = r /\ data.lines[i].line.id = id},
     untagged |-> IF current = r
                  THEN {i \in 1..Len(data.base_lines) : data.base_lines[i].id = id}
                  ELSE {}]

UnitEntries(data, current, r, id) ==
    [tagged |-> {i \in 1..Len(data.units) :
                    data.units[i].room_id = r /\ data.units[i].unit.id = id},
     untagged |-> IF current = r
                  THEN {i \in 1..Len(data.base_units) : data.base_units[i].id = id}
                  ELSE {}]

\* C23: in the composite sent to an admin viewer every line and every unit
\* of every enabled room appears exactly once, under the identifier
\* room_id + "_" + original id and with its source room id, units marked
\* read-only; entries of different rooms never share an identifier.
CompositeShowsEachEntityOnce ==
    [][\A sid \in Sids, target_room_id \in RoomIds, enabled \in BOOLEAN :
        (/\ handle_admin_toggle_room(sid, target_room_id, enabled)
         /\ out'[1].name = "admin_room_overlay_updated") =>
            LET data == out'[1].data
                current == user_sessions[sid].room_id
            IN  /\ \A t \in Range(data.room_toggles) :
                       (t.enabled /\ db_rooms[t.room_id].exists) =>
                           /\ \A l \in RoomLines(db_lines, t.room_id) :
                                  LET shown == LineEntries(data, current, t.room_id, l.line_id)
                                  IN  /\ Cardinality(shown.tagged) = 1
                                      /\ shown.untagged = {}
                                      /\ \A i \in shown.tagged :
                                             data.lines[i].line_id = t.room_id \o "_" \o l.line_id
                           /\ \A u \in RoomUnits(db_units, t.room_id) :
                                  LET shown == UnitEntries(data, current, t.room_id, u.unit_id)
                                  IN  /\ Cardinality(shown.tagged) = 1
                                      /\ shown.untagged = {}
                                      /\ \A i \in shown.tagged :
                                             /\ data.units[i].unit_id = t.room_id \o "_" \o u.unit_id
                                             /\ data.units[i].is_read_only
                /\ \A i, j \in 1..Len(data.lines) :
                       data.lines[i].room_id # data.lines[j].room_id =>
                           data.lines[i].line_id # data.lines[j].line_id
                /\ \A i, j \in 1..Len(data.units) :
                       data.units[i].room_id # data.units[j].room_id =>
                           data.units[i].unit_id # data.units[j].unit_id
      ]_vars

\* viewer v can ask for a composite: an authenticated admin in a cached room
Viewing(v) ==
    /\ user_sessions[v].connected
    /\ user_sessions[v].username \in Admins
    /\ user_sessions[v].room_id # None
    /\ rooms[user_sessions[v].room_id].cached

\* the composite viewer v is sent when its next admin_toggle_room sets room
\* t to e
CompositeFor(v, t, e) ==
    LET toggles == set_toggle(user_sessions[v].admin_toggles, t, e)
        current_room_id == user_sessions[v].room_id
    IN  [hex_data |-> overlay_hex_data(toggles, current_room_id),
         base_lines |-> rooms[current_room_id].lines,
         lines |-> overlay_lines(toggles),
         base_units |-> rooms[current_room_id].units,
         units |-> overlay_units(toggles)]

\* C24: an admin_toggle_room of one viewer leaves what any other viewer's
\* next composite contains as it was: a viewer's composite depends on the
\* rooms' map state and on its own toggle map only.
OverlaysAreViewerScoped ==
    [][\A sid \in Sids, target_room_id \in RoomIds, enabled \in BOOLEAN :
        handle_admin_toggle_room(sid, target_room_id, enabled) =>
            \A v \in Sids \ {sid} :
                Viewing(v) =>
                    \A t \in {r \in RoomIds : rooms[r].cached}, e \in BOOLEAN :
                        CompositeFor(v, t, e)' = CompositeFor(v, t, e)
      ]_vars

\* C25: line_add and unit_add in a room, with an id that identifies a line
\* or a unit of another room, are accepted: the entity is created in the
\* sender's room and the other room's entity stays as it was.
IdsAreRoomScoped ==
    [][\A sid \in Sids, k \in Keys, b \in Keys :
        LET r == user_sessions[sid].room_id
        IN  /\ \A id \in LineIds :
                (/\ Editing(sid)
                 /\ line_id_taken(db_lines, id)
                 /\ \A l \in RoomLines(db_lines, r) : l.line_id # id
                 /\ handle_line_add(sid, id, k, b)) =>
                    /\ \E l \in RoomLines(db_lines', r) : l.line_id = id
                    /\ \A o \in RoomIds \ {r} : RoomLines(db_lines', o) = RoomLines(db_lines, o)
            /\ \A id \in UnitIds :
                (/\ Editing(sid)
                 /\ unit_id_taken(db_units, id)
                 /\ \A u \in RoomUnits(db_units, r) : u.unit_id # id
                 /\ handle_unit_add(sid, id, k, None)) =>
                    /\ \E u \in RoomUnits(db_units', r) : u.unit_id = id
                    /\ \A o \in RoomIds \ {r} : RoomUnits(db_units', o) = RoomUnits(db_units, o)
      ]_vars

\* C26: a disconnect of a session that is in a room removes only that
\* session: its registry entry is dropped and no other entry changes, it
\* leaves the participant set of its room and no other set changes, the
\* members that remain are sent user_left, and the store's rooms, hexes,
\* lines and units are what they were.
DisconnectRemovesOnlyThatSession ==
    [][\A sid \in Sids :
        LET r == user_sessions[sid].room_id
        IN  (r # None /\ handle_disconnect(sid)) =>
                /\ user_sessions' = [user_sessions EXCEPT ![sid] = NoSession]
                /\ rooms' = [rooms EXCEPT ![r].users = @ \ {sid}]
                /\ Len(out') = 1
                /\ out'[1].name = "user_left"
                /\ Participants(r) \ {sid} \subseteq out'[1].to
                /\ UNCHANGED store
      ]_vars

\* a session left a room that keeps a member and a placed unit
DisconnectedFromSharedRoom ==
    /\ Len(out) = 1
    /\ out[1].name = "user_left"
    /\ ~user_sessions[out[1].sid].connected
    /\ out[1].to # {}
    /\ \E r \in RoomIds : RoomUnits(db_units, r) # {} /\ out[1].to \subseteq rooms[r].users

NoDefaultColorRow ==
    \A r \in RoomIds, k \in Keys : db_hexes[r][k] # DEFAULT_COLOR

\* an import whose payload painted k1 red and gave k2 the default color has
\* been stored
ImportedDefaultColorCell ==
    /\ Len(out) >= 1
    /\ out[1].name = "room_state_replaced"
    /\ Len(out[1].data.units) = 1
    /\ Len(out[1].data.lines) = 1
    /\ \E r \in RoomIds : db_hexes[r]["k1"] = "red" /\ db_hexes[r]["k2"] = None

\* the map state of room r as the cache and as the store hold it: the
\* cells with a color other than the default, the lines, and the cell each
\* unit stands on
CachedMap(r) ==
    [colors |-> {<<k, rooms[r].hex_data[k].fillColor>> :
                    k \in {h \in Keys : rooms[r].hex_data[h].fillColor \notin {None, DEFAULT_COLOR}}},
     lines |-> Range(rooms[r].lines),
     units |-> {<<u.id, u.hex_key>> : u \in Range(rooms[r].units)}]

StoredMap(r) ==
    [colors |-> {<<k, db_hexes[r][k]>> :
                    k \in {h \in Keys : db_hexes[r][h] \notin {None, DEFAULT_COLOR}}},
     lines |-> Range(line_payloads(db_lines, r)),
     units |-> {<<u.unit_id, u.hex_key>> : u \in RoomUnits(db_units, r)}]

\* C29: when a mutating event has completed, every room of the cache has
\* in the cache the map state it has in the store: the same colored cells,
\* the same lines, the same units on the same cells.
CacheAgreesWithStore ==
    [][Broadcasting' => \A r \in RoomIds : rooms'[r].cached => CachedMap(r)' = StoredMap(r)']_vars

\* the statements that write the store, raise the version or update the
\* cache, and the place of the cache update in a handler
Writes ==
    {"update_hex", "erase_hex", "delete_lines_by_hex", "add_line", "update_room_activity",
     "increment_room_version", "cache"}
CacheAt(handler) ==
    CHOOSE i \in 1..Len(Statements[handler]) : Statements[handler][i] = "cache"

\* the coroutine of s has made its first store write and not yet its cache
\* update
InWindow(s) ==
    /\ loop.coro[s].handler # None
    /\ loop.coro[s].pc > 1
    /\ loop.coro[s].pc <= CacheAt(loop.coro[s].handler)

\* this step is the coroutine of t executing one of the Writes
Writing(t) ==
    /\ loop.coro[t].handler # None
    /\ loop'.coro[t] # loop.coro[t]
    /\ Statements[loop.coro[t].handler][loop.coro[t].pc] \in Writes

\* C30: mutations on the same room are serialized.  While an event is
\* between its first store write and its cache update, no step of another
\* event on that room writes the store, raises the version or updates the
\* cache, however the event loop interleaves the handlers at their awaits.
MutationsSerialized ==
    [][\A s \in Sids, t \in Sids :
        (/\ s # t
         /\ InWindow(s)
         /\ loop.coro[t].room_id = loop.coro[s].room_id) => ~Writing(t)
      ]_vars

\* two events on one room are in flight: one has written the store and not
\* yet the cache, the other stands at an await
WritingBesideSuspendedHandler ==
    \E s \in Sids, t \in Sids :
        /\ s # t
        /\ InWindow(s)
        /\ loop.coro[t].handler # None
        /\ loop.coro[t].room_id = loop.coro[s].room_id
        /\ Statements[loop.coro[t].handler][loop.coro[t].pc] \in Awaited

\* C31: the mutation broadcasts of a room are emitted in strictly
\* increasing room_version order.  Whatever way the event loop interleaves
\* the handlers, a coroutine that emits its broadcast carries a version
\* greater than the one the room's last broadcast carried.
BroadcastsInVersionOrder ==
    [][\A sid \in Sids :
        LET task == loop.coro[sid]
        IN  (/\ task.handler # None
             /\ Statements[task.handler][task.pc] = "emit"
             /\ resume(sid)) =>
                /\ loop'.sent[task.room_id] = task.room_version
                /\ task.room_version > loop.sent[task.room_id]
      ]_vars

\* two events of one room are in flight and both have emitted: the later
\* one carries the greater version
TwoBroadcastsInFlight ==
    \E s \in Sids, t \in Sids :
        /\ s # t
        /\ loop.coro[s].handler # None
        /\ loop.coro[t].handler # None
        /\ loop.coro[s].room_id = loop.coro[t].room_id
        /\ Statements[loop.coro[s].handler][loop.coro[s].pc] = "notify_admin_rooms_of_room_update"
        /\ Statements[loop.coro[t].handler][loop.coro[t].pc] = "notify_admin_rooms_of_room_update"
        /\ loop.coro[s].room_version < loop.coro[t].room_version
        /\ loop.sent[loop.coro[t].room_id] = loop.coro[t].room_version

\* the units of a payload that carry an id, as <<id, cell>>
RECURSIVE PayloadUnits(_)
PayloadUnits(units) ==
    IF units = <<>> THEN <<>>
    ELSE (IF Head(units).id = None THEN <<>>
          ELSE <<<<Head(units).id, Head(units).hex_key>>>>) \o PayloadUnits(Tail(units))

RECURSIVE StoredUnits(_, _)
StoredUnits(dbu, r) ==
    IF dbu = <<>> THEN <<>>
    ELSE (IF Head(dbu).room = r THEN <<<<Head(dbu).unit_id, Head(dbu).hex_key>>>> ELSE <<>>)
         \o StoredUnits(Tail(dbu), r)

\* sid may replace the state of the room it is in
ReplaceAccepted(sid) ==
    /\ user_sessions[sid].room_id # None
    /\ get_room(user_sessions[sid].room_id).exists
    /\ may_replace(user_sessions[sid], get_room(user_sessions[sid].room_id))

\* C32: an accepted replace_room_state replaces the whole map in one step.
\* When it is broadcast the store holds for the room exactly the payload's
\* cells of a color other than the default, the payload's lines and the
\* payload's units that carry an id, and the rows of the other rooms are
\* untouched; when an insert fails, the hexes, lines and units of the store
\* are what they were.
ReplaceIsAllOrNothing ==
    [][\A sid \in Sids, payload \in ReplacePayloads :
        LET r == user_sessions[sid].room_id
        IN  (ReplaceAccepted(sid) /\ handle_replace_room_state(sid, payload)) =>
                IF out' # <<>>
                THEN /\ out'[1].name = "room_state_replaced"
                     /\ db_hexes'[r] = [k \in Keys |->
                            IF payload.hex_data[k] \in {None, DEFAULT_COLOR}
                            THEN None ELSE payload.hex_data[k]]
                     /\ line_payloads(db_lines', r) = payload.lines
                     /\ StoredUnits(db_units', r) = PayloadUnits(payload.units)
                     /\ \A o \in RoomIds \ {r} :
                            /\ db_hexes'[o] = db_hexes[o]
                            /\ RoomLines(db_lines', o) = RoomLines(db_lines, o)
                            /\ RoomUnits(db_units', o) = RoomUnits(db_units, o)
                ELSE UNCHANGED <<db_hexes, db_lines, db_units>>
      ]_vars

\* an import that paints k2 blue has replaced a map while another room
\* holds a unit
ImportReplacedMap ==
    /\ Len(out) >= 1
    /\ out[1].name = "room_state_replaced"
    /\ LET r == user_sessions[out[1].sid].room_id
       IN  /\ r # None
           /\ db_hexes[r]["k2"] = "blue"
           /\ db_hexes[r]["k1"] = None
           /\ \E o \in RoomIds \ {r} : RoomUnits(db_units, o) # {}

\* C33: in every reachable state the participant set kept for a room is the
\* set of live sessions whose current room it is.
ParticipantsAreCurrentSessions ==
    \A r \in RoomIds : rooms[r].users = Participants(r)

\* C34: a mutation broadcast of a room is delivered only to sessions whose
\* current room is that room when it is emitted.
BroadcastOnlyToCurrentMembers ==
    Broadcasting => out[1].to \subseteq Participants(SenderRoom)

\* C35: when exactly one live session has a room as its current room and
\* that session sends delete_room, the room is deleted.
SoleMemberDeletesRoom ==
    [][\A sid \in Sids :
        LET r == user_sessions[sid].room_id
        IN  (/\ r # None
             /\ db_rooms[r].exists
             /\ Participants(r) = {sid}
             /\ handle_delete_room(sid)) => ~db_rooms'[r].exists
      ]_vars

\* C36: admin_toggle_room is read-only with respect to map state.  It
\* changes nothing but the toggle map of the session that sent it: the store
\* and the cache entry of every room are the same before and after it.
ToggleLeavesMapStateAlone ==
    [][\A sid \in Sids, room_id \in RoomIds, enabled \in BOOLEAN :
        handle_admin_toggle_room(sid, room_id, enabled) =>
            /\ UNCHANGED store
            /\ rooms' = rooms
            /\ \A s \in Sids \ {sid} : user_sessions'[s] = user_sessions[s]
            /\ user_sessions'[sid] =
                   [user_sessions[sid] EXCEPT !.admin_toggles = user_sessions'[sid].admin_toggles]
      ]_vars

\* C37: in every overlay sent by admin_toggle_room, the contributor list of
\* a cell holds one entry for each room the viewer has enabled that has a
\* color other than the default at that cell, and no other entry.
ContributorsAreEnabledColoredRooms ==
    [][\A sid \in Sids, target_room_id \in RoomIds, enabled \in BOOLEAN :
        (/\ handle_admin_toggle_room(sid, target_room_id, enabled)
         /\ out'[1].name = "admin_room_overlay_updated") =>
            \A k \in Keys :
                LET contributors == out'[1].data.hex_data[k].rooms
                    colored == {r \in RoomIds : HasEnabled(sid, r)' /\ db_hexes[r][k] # None}
                IN  /\ {contributors[i].room_id : i \in 1..Len(contributors)} = colored
                    /\ Len(contributors) = Cardinality(colored)
      ]_vars

JoinedWithStaleState ==
    /\ Len(out) = 1
    /\ out[1].name = "room_joined"
    /\ out[1].data.hex_data # hex_dicts(db_hexes, out[1].data.room_id)

IncrementIsBroadcastOnce ==
    [][\A r \in RoomIds :
        (/\ db_rooms[r].exists
         /\ db_rooms'[r].exists
         /\ db_rooms'[r].version > db_rooms[r].version)
        => Cardinality({i \in DOMAIN out' :
                           /\ out'[i].name \in MutationEvents
                           /\ out'[i].room_version = db_rooms'[r].version}) = 1]_vars

====
